---- MODULE Spec2Model ----
(***************************************************************************)
(* Rosewood Rivalry backend: the store (players with cached aggregates,    *)
(* Die games and their participations, discovered teams, golf rounds) and  *)
(* the handlers that write it, translated from backend/app/routers and     *)
(* backend/app/services.                                                   *)
(*                                                                         *)
(* Conventions.                                                            *)
(*  - Optional[T] is a sequence: None is <<>>, a present value v is <<v>>. *)
(*  - A Python float that is a quotient n/d is kept as the reduced         *)
(*    fraction <<n, d>> (d > 0); 0.0 is <<0, 1>>.                          *)
(*  - game_participations and golf_round_participations are kept per       *)
(*    parent id, each a sequence of rows in insertion order.               *)
(*  - played_at (est_now() at insert) is the tick of the insert: the n-th  *)
(*    game inserted is played at tick n.                                   *)
(***************************************************************************)
EXTENDS Integers, Sequences, FiniteSets, TLC

VARIABLES players, games, game_participations, nextGameId, teams,
          golf_rounds, golf_round_participations, golf_hole_results,
          nextRoundId, golf_courses, upstream_requests, creating, in_flight, response

vars == <<players, games, game_participations, nextGameId, teams,
          golf_rounds, golf_round_participations, golf_hole_results,
          nextRoundId, golf_courses, upstream_requests, creating, in_flight, response>>

dieVars == <<games, game_participations, nextGameId>>
golfVars == <<golf_rounds, golf_round_participations, golf_hole_results, nextRoundId>>
courseVars == <<golf_courses, upstream_requests>>

(***************************************************************************)
(* Bounds                                                                  *)
(***************************************************************************)
\* ids the games table may hand out in the team-discovery specification
MaxGames == 3
\* ids the games table may hand out in the player-statistics specification
MaxStatGames == 2
\* ids the golf_rounds table may hand out
MaxRounds == 2
\* ids the games table may hand out in the rivalry specification
MaxRivalryGames == 2
\* ids the games and golf_rounds tables may hand out in the specification of both sports
MaxLeagueGames == 2
MaxLeagueRounds == 1

None == <<>>
Some(v) == <<v>>
IsNone(o) == o = <<>>
Get(o) == o[1]

(***************************************************************************)
(* Arithmetic helpers                                                      *)
(***************************************************************************)
RECURSIVE GCD(_, _)
GCD(a, b) == IF b = 0 THEN a ELSE GCD(b, a % b)

\* the float n / d (n >= 0, d > 0) as a reduced fraction
Ratio(n, d) == LET g == GCD(n, d) IN <<n \div g, d \div g>>
Zero == <<0, 1>>

RECURSIVE SumSeq(_)
SumSeq(s) == IF s = <<>> THEN 0 ELSE Head(s) + SumSeq(Tail(s))

\* sum(xs) / len(xs) if xs else 0.0
Mean(xs) == IF xs # <<>> THEN Ratio(SumSeq(xs), Len(xs)) ELSE Zero

\* won / played * 100 if played > 0 else 0.0
PercentageOfAllWon(won, played) == IF played > 0 THEN Ratio(won * 100, played) ELSE <<100, 1>>

Percentage(won, played) == IF played > 0 THEN Ratio(won * 100, played) ELSE Zero

RECURSIVE Insert(_, _)
Insert(x, s) == IF s = <<>> THEN <<x>>
                ELSE IF x <= Head(s) THEN <<x>> \o s
                ELSE <<Head(s)>> \o Insert(x, Tail(s))

\* sorted(xs) for a list of integers
RECURSIVE sorted(_)
sorted(xs) == IF xs = <<>> THEN <<>> ELSE Insert(Head(xs), sorted(Tail(xs)))

Range(s) == {s[i] : i \in DOMAIN s}

RECURSIVE Concat(_)
Concat(ss) == IF ss = <<>> THEN <<>> ELSE Head(ss) \o Concat(Tail(ss))

\* the ids of a finite set of integers in ascending order
RECURSIVE Ascending(_)
Ascending(S) == IF S = {} THEN <<>>
                ELSE LET m == CHOOSE x \in S : \A y \in S : x <= y
                     IN <<m>> \o Ascending(S \ {m})

(***************************************************************************)
(* Players                                                                 *)
(***************************************************************************)
\* rivalry_service.py: the two fixed rosters, each name a list of words
ORCHARD_PLAYERS == << <<"Sean", "Nary">>, <<"Tyler", "Pendleton">>, <<"Reid", "Silverman">> >>
DREHER_PLAYERS == << <<"Jeremy", "Cortazzo">>, <<"Danny", "Wersching">>,
                     <<"AJ", "Partridge">>, <<"Brendan", "Meagher">> >>

\* a player of neither roster
Outsider == <<"Zach", "Outsider">>

\* the players rows present at start: ids 1..3 Orchard, 4..7 Dreher, 8 neither
InitialNames == ORCHARD_PLAYERS \o DREHER_PLAYERS \o <<Outsider>>
PlayerIds == 1..Len(InitialNames)

\* Python's str ordering restricted to the names in use (first words differ)
AlphabeticalFirst == <<"AJ", "Brendan", "Danny", "Jeremy", "Reid", "Sean", "Tyler", "Zach">>
NameRank(name) == CHOOSE i \in DOMAIN AlphabeticalFirst : AlphabeticalFirst[i] = name[1]

\* models.py Player: a new row's cached columns take their defaults
NewPlayer(name) ==
    [name |-> name,
     games_played |-> 0, games_won |-> 0,
     total_points_scored |-> 0, total_points_against |-> 0,
     win_percentage |-> Zero, avg_loss_margin |-> Zero, avg_win_margin |-> Zero,
     golf_rounds_played |-> 0, golf_rounds_won |-> 0, golf_rounds_lost |-> 0,
     golf_rounds_drawn |-> 0, golf_holes_won |-> 0, golf_holes_lost |-> 0,
     golf_win_percentage |-> Zero]

\* db.query(Player).filter(Player.id.in_(ids)).all(): one row per distinct known id
PlayersIn(pl, ids) == {p \in DOMAIN pl : p \in Range(ids)}

\* a variant that finds no player of any name
NoSuchPlayer(pl, name) == FALSE

\* db.query(Player).filter(Player.name == player.name).first() finds a row
existing_player(pl, name) == \E p \in DOMAIN pl : pl[p].name = name

\* POST /players/ up to db.add: the body is validated (PlayerCreate: min_length=1), the
\* name is looked up, and the new row waits in the session for the commit.  creating
\* holds the names of the requests that are between their lookup and their commit.
create_player(name) ==
    IF Len(name) < 1
    THEN response' = [status |-> 422, body |-> None]
         /\ UNCHANGED <<players, dieVars, teams, golfVars, courseVars, creating, in_flight>>
    ELSE IF existing_player(players, name)
    THEN response' = [status |-> 400, body |-> None]
         /\ UNCHANGED <<players, dieVars, teams, golfVars, courseVars, creating, in_flight>>
    ELSE /\ creating' = Append(creating, name)
         /\ UNCHANGED <<players, dieVars, teams, golfVars, courseVars, in_flight, response>>

\* POST /players/ from db.commit: the INSERT fails on the unique constraint of
\* players.name when a row with the name was committed in the meantime, the exception
\* is not handled and the reply is 500; otherwise the row is stored with the next id
create_player_commit(i) ==
    LET name == creating[i]
        id == Cardinality(DOMAIN players) + 1
    IN  /\ creating' = SubSeq(creating, 1, i - 1) \o SubSeq(creating, i + 1, Len(creating))
        /\ IF \E p \in DOMAIN players : players[p].name = name
           THEN /\ response' = [status |-> 500, body |-> None]
                /\ UNCHANGED players
           ELSE /\ players' = [p \in DOMAIN players \cup {id} |->
                                  IF p = id THEN NewPlayer(name) ELSE players[p]]
                /\ response' = [status |-> 200, body |-> Some([id |-> id, name |-> name])]
        /\ UNCHANGED <<dieVars, teams, golfVars, courseVars, in_flight>>

(***************************************************************************)
(* Participation tables, kept per parent id                                *)
(***************************************************************************)
\* the rows of one parent (game or round), in insertion order
RowsOf(parts, id) == IF id \in DOMAIN parts THEN parts[id] ELSE <<>>

\* delete every row of the parent, then insert rows
ReplaceRows(parts, id, rows) ==
    [k \in (IF rows = <<>> THEN DOMAIN parts \ {id} ELSE DOMAIN parts \cup {id}) |->
        IF k = id THEN rows ELSE parts[k]]

PlayerIdsOf(rows) == [i \in DOMAIN rows |-> rows[i].player_id]

\* one participation row per listed player, all with the same side marker
SideRows(player_ids, team_number) ==
    [i \in DOMAIN player_ids |-> [player_id |-> player_ids[i], team_number |-> team_number]]

\* the rows of a parent carrying a side marker
Side(parts, id, team_number) == SelectSeq(RowsOf(parts, id), LAMBDA r : r.team_number = team_number)

(***************************************************************************)
(* Die: the Aggregate Recalculator  (routers/games.py)                     *)
(***************************************************************************)
\* db.query(GameParticipation).filter(player_id == pid).all(), each row with its game_id
ParticipationsOf(parts, pid) ==
    LET ids == Ascending(DOMAIN parts)
    IN  Concat([i \in DOMAIN ids |->
                  SelectSeq([j \in DOMAIN parts[ids[i]] |->
                                [game_id |-> ids[i],
                                 player_id |-> parts[ids[i]][j].player_id,
                                 team_number |-> parts[ids[i]][j].team_number]],
                            LAMBDA r : r.player_id = pid)])

\* the loop body's view of one participation: skipped when the game row is missing
Counted(gm, ps) == SelectSeq(ps, LAMBDA p : p.game_id \in DOMAIN gm)
\* a variant that reads side 1's score whatever the participation's side
PlayerScoreOfSide1(gm, p) == gm[p.game_id].team1_score

PlayerScore(gm, p) == IF p.team_number = 1 THEN gm[p.game_id].team1_score
                      ELSE gm[p.game_id].team2_score
OpponentScore(gm, p) == IF p.team_number = 1 THEN gm[p.game_id].team2_score
                        ELSE gm[p.game_id].team1_score
\* a variant that takes a win to be a higher score
ScoredMore(gm, p) ==
    (IF p.team_number = 1 THEN gm[p.game_id].team1_score ELSE gm[p.game_id].team2_score)
       > (IF p.team_number = 1 THEN gm[p.game_id].team2_score ELSE gm[p.game_id].team1_score)

\* game.winner_team == participation.team_number
IsWin(gm, p) == gm[p.game_id].winner_team = p.team_number

\* the values the loop of _update_single_player_stats accumulates
DieTally(gm, parts, pid) ==
    LET all_participations == ParticipationsOf(parts, pid)
        counted == Counted(gm, all_participations)
        wins == SelectSeq(counted, LAMBDA p : IsWin(gm, p))
        losses == SelectSeq(counted, LAMBDA p : ~IsWin(gm, p))
    IN  [games_played |-> Len(all_participations),
         games_won |-> Len(wins),
         total_points_scored |-> SumSeq([i \in DOMAIN counted |-> PlayerScore(gm, counted[i])]),
         total_points_against |-> SumSeq([i \in DOMAIN counted |-> OpponentScore(gm, counted[i])]),
         win_margins |-> [i \in DOMAIN wins |-> PlayerScore(gm, wins[i]) - OpponentScore(gm, wins[i])],
         loss_margins |-> [i \in DOMAIN losses |-> OpponentScore(gm, losses[i]) - PlayerScore(gm, losses[i])]]

\* a variant that adds the tally to the cached counters instead of replacing them
DieStatsRowIncremental(row, t) ==
    [row EXCEPT !.games_played = @ + t.games_played,
                !.games_won = @ + t.games_won,
                !.total_points_scored = @ + t.total_points_scored,
                !.total_points_against = @ + t.total_points_against,
                !.win_percentage = Percentage(row.games_won + t.games_won,
                                              row.games_played + t.games_played),
                !.avg_win_margin = Mean(t.win_margins),
                !.avg_loss_margin = Mean(t.loss_margins)]

\* the player row after "Update player stats"
DieStatsRow(row, t) ==
    [row EXCEPT !.games_played = t.games_played,
                !.games_won = t.games_won,
                !.total_points_scored = t.total_points_scored,
                !.total_points_against = t.total_points_against,
                !.win_percentage = Percentage(t.games_won, t.games_played),
                !.avg_win_margin = Mean(t.win_margins),
                !.avg_loss_margin = Mean(t.loss_margins)]

\* a variant that leaves the player row as it is
LeaveStale(pl, gm, parts, pid) == pl

_update_single_player_stats(pl, gm, parts, pid) ==
    IF pid \notin DOMAIN pl THEN pl
    ELSE [pl EXCEPT ![pid] = DieStatsRow(pl[pid], DieTally(gm, parts, pid))]

\* a loop of _update_single_player_stats over a list of player ids
RECURSIVE UpdateEach(_, _, _, _)
UpdateEach(pl, gm, parts, ids) ==
    IF ids = <<>> THEN pl
    ELSE UpdateEach(_update_single_player_stats(pl, gm, parts, Head(ids)), gm, parts, Tail(ids))

_update_player_stats(pl, gm, parts, game_id) ==
    UpdateEach(pl, gm, parts, PlayerIdsOf(RowsOf(parts, game_id)))

(***************************************************************************)
(* Die: the game handlers  (routers/games.py, schemas/schemas.py)          *)
(***************************************************************************)
\* a variant that forgets the players of the rows the update deletes
NewPlayersOnly(existing, new_ids) == Range(new_ids)

\* all_affected_player_ids of an update that replaces rosters: the old rows' players and the new ones
all_affected_player_ids(existing, new_ids) == existing \cup Range(new_ids)

\* a variant that gives a tie to side 1
WinnerWithTieToSide1(team1_score, team2_score) == IF team1_score >= team2_score THEN 1 ELSE 2

\* winner_team = 1 if team1_score > team2_score else 2
WinnerOf(team1_score, team2_score) == IF team1_score > team2_score THEN 1 ELSE 2

\* GameCreate / GameUpdate validate_unique_players: no player on both teams
validate_unique_players(team1_players, team2_players) ==
    IsNone(team1_players) \/ IsNone(team2_players)
        \/ Range(Get(team1_players)) \cap Range(Get(team2_players)) = {}

\* a variant in which the session's uncommitted changes are written when it is closed
CloseWritingPending(committed, pending) == pending

\* get_db: the session is closed when the handler raises; what the handler assigned
\* without a commit is discarded (autoflush is off) and the committed rows remain
close(committed, pending) == committed

\* what the caller gets back: the HTTP status and, for a read, the value returned
Reply(status) == [status |-> status, body |-> None]

create_game(team1_players, team2_players, team1_score, team2_score) ==
    LET all_player_ids == team1_players \o team2_players
        id == nextGameId
        gm == [k \in DOMAIN games \cup {id} |->
                 IF k = id THEN [team1_score |-> team1_score,
                                 team2_score |-> team2_score,
                                 winner_team |-> WinnerOf(team1_score, team2_score),
                                 played_at |-> id]
                 ELSE games[k]]
        parts == ReplaceRows(game_participations, id,
                             SideRows(team1_players, 1) \o SideRows(team2_players, 2))
    IN  IF ~validate_unique_players(Some(team1_players), Some(team2_players))
        THEN response' = Reply(422)
             /\ UNCHANGED <<players, dieVars, teams, golfVars, courseVars, creating, in_flight>>
        ELSE IF Cardinality(PlayersIn(players, all_player_ids)) # 6
        THEN response' = Reply(400)
             /\ UNCHANGED <<players, dieVars, teams, golfVars, courseVars, creating, in_flight>>
        ELSE /\ games' = gm
             /\ game_participations' = parts
             /\ nextGameId' = nextGameId + 1
             /\ players' = _update_player_stats(players, gm, parts, id)
             /\ response' = Reply(200)
             /\ UNCHANGED <<teams, golfVars, courseVars, creating, in_flight>>

update_game(game_id, team1_score, team2_score, team1_players, team2_players) ==
    IF ~validate_unique_players(team1_players, team2_players)
    THEN response' = Reply(422)
         /\ UNCHANGED <<players, dieVars, teams, golfVars, courseVars, creating, in_flight>>
    ELSE IF game_id \notin DOMAIN games
    THEN response' = Reply(404)
         /\ UNCHANGED <<players, dieVars, teams, golfVars, courseVars, creating, in_flight>>
    ELSE
    LET s1 == IF IsNone(team1_score) THEN games[game_id].team1_score ELSE Get(team1_score)
        s2 == IF IsNone(team2_score) THEN games[game_id].team2_score ELSE Get(team2_score)
        gm == [games EXCEPT ![game_id] = [@ EXCEPT !.team1_score = s1,
                                                   !.team2_score = s2,
                                                   !.winner_team = WinnerOf(s1, s2)]]
        rosters == ~IsNone(team1_players) \/ ~IsNone(team2_players)
        existing == Range(PlayerIdsOf(RowsOf(game_participations, game_id)))
        new1 == IF IsNone(team1_players) THEN <<>> ELSE Get(team1_players)
        new2 == IF IsNone(team2_players) THEN <<>> ELSE Get(team2_players)
        all_player_ids == new1 \o new2
        parts == IF rosters
                 THEN ReplaceRows(game_participations, game_id,
                                  SideRows(new1, 1) \o SideRows(new2, 2))
                 ELSE game_participations
    IN  IF rosters /\ Cardinality(PlayersIn(players, all_player_ids)) # Len(all_player_ids)
        THEN response' = Reply(400)
             /\ games' = close(games, gm)
             /\ UNCHANGED <<players, game_participations, nextGameId, teams, golfVars, courseVars, creating, in_flight>>
        ELSE /\ games' = gm
             /\ game_participations' = parts
             /\ players' = IF rosters
                           THEN UpdateEach(players, gm, parts,
                                           Ascending(all_affected_player_ids(existing, all_player_ids)))
                           ELSE _update_player_stats(players, gm, parts, game_id)
             /\ response' = Reply(200)
             /\ UNCHANGED <<nextGameId, teams, golfVars, courseVars, creating, in_flight>>

delete_game(game_id) ==
    IF game_id \notin DOMAIN games
    THEN response' = Reply(404)
         /\ UNCHANGED <<players, dieVars, teams, golfVars, courseVars, creating, in_flight>>
    ELSE
    LET affected_player_ids == PlayerIdsOf(RowsOf(game_participations, game_id))
        parts == ReplaceRows(game_participations, game_id, <<>>)
        gm == [k \in DOMAIN games \ {game_id} |-> games[k]]
    IN  /\ game_participations' = parts
        /\ games' = gm
        /\ players' = UpdateEach(players, gm, parts, affected_player_ids)
        /\ response' = Reply(200)
        /\ UNCHANGED <<nextGameId, teams, golfVars, courseVars, creating, in_flight>>

\* The game writes one commit at a time.  Each handler commits its Game and
\* GameParticipation rows first and the recomputed aggregates in a later commit of
\* its own; in_flight holds the requests that are between the two.  A request keeps
\* the game whose players it will recompute (create, score-only update) or the
\* player ids it collected (roster update, delete), and what it has read so far.
InFlight(game, ids) == [game |-> game, ids |-> ids, read |-> None]

\* create_game up to and including the commit of the six participation rows
create_game_rows(team1_players, team2_players, team1_score, team2_score) ==
    LET all_player_ids == team1_players \o team2_players
        id == nextGameId
        gm == [k \in DOMAIN games \cup {id} |->
                 IF k = id THEN [team1_score |-> team1_score,
                                 team2_score |-> team2_score,
                                 winner_team |-> WinnerOf(team1_score, team2_score),
                                 played_at |-> id]
                 ELSE games[k]]
        parts == ReplaceRows(game_participations, id,
                             SideRows(team1_players, 1) \o SideRows(team2_players, 2))
    IN  IF ~validate_unique_players(Some(team1_players), Some(team2_players))
        THEN response' = Reply(422)
             /\ UNCHANGED <<players, dieVars, teams, golfVars, courseVars, creating, in_flight>>
        ELSE IF Cardinality(PlayersIn(players, all_player_ids)) # 6
        THEN response' = Reply(400)
             /\ UNCHANGED <<players, dieVars, teams, golfVars, courseVars, creating, in_flight>>
        ELSE /\ games' = gm
             /\ game_participations' = parts
             /\ nextGameId' = nextGameId + 1
             /\ in_flight' = Append(in_flight, InFlight(Some(id), <<>>))
             /\ UNCHANGED <<players, teams, golfVars, courseVars, creating, response>>

\* update_game up to and including db.commit() / db.refresh(game)
update_game_rows(game_id, team1_score, team2_score, team1_players, team2_players) ==
    IF ~validate_unique_players(team1_players, team2_players)
    THEN response' = Reply(422)
         /\ UNCHANGED <<players, dieVars, teams, golfVars, courseVars, creating, in_flight>>
    ELSE IF game_id \notin DOMAIN games
    THEN response' = Reply(404)
         /\ UNCHANGED <<players, dieVars, teams, golfVars, courseVars, creating, in_flight>>
    ELSE
    LET s1 == IF IsNone(team1_score) THEN games[game_id].team1_score ELSE Get(team1_score)
        s2 == IF IsNone(team2_score) THEN games[game_id].team2_score ELSE Get(team2_score)
        gm == [games EXCEPT ![game_id] = [@ EXCEPT !.team1_score = s1,
                                                   !.team2_score = s2,
                                                   !.winner_team = WinnerOf(s1, s2)]]
        rosters == ~IsNone(team1_players) \/ ~IsNone(team2_players)
        existing == Range(PlayerIdsOf(RowsOf(game_participations, game_id)))
        new1 == IF IsNone(team1_players) THEN <<>> ELSE Get(team1_players)
        new2 == IF IsNone(team2_players) THEN <<>> ELSE Get(team2_players)
        all_player_ids == new1 \o new2
        parts == IF rosters
                 THEN ReplaceRows(game_participations, game_id,
                                  SideRows(new1, 1) \o SideRows(new2, 2))
                 ELSE game_participations
    IN  IF rosters /\ Cardinality(PlayersIn(players, all_player_ids)) # Len(all_player_ids)
        THEN response' = Reply(400)
             /\ games' = close(games, gm)
             /\ UNCHANGED <<players, game_participations, nextGameId, teams, golfVars, courseVars, creating, in_flight>>
        ELSE /\ games' = gm
             /\ game_participations' = parts
             /\ in_flight' = Append(in_flight,
                                    IF rosters
                                    THEN InFlight(None, Ascending(all_affected_player_ids(existing, all_player_ids)))
                                    ELSE InFlight(Some(game_id), <<>>))
             /\ UNCHANGED <<players, nextGameId, teams, golfVars, courseVars, creating, response>>

\* delete_game up to and including the commit that removes the rows
delete_game_rows(game_id) ==
    IF game_id \notin DOMAIN games
    THEN response' = Reply(404)
         /\ UNCHANGED <<players, dieVars, teams, golfVars, courseVars, creating, in_flight>>
    ELSE /\ game_participations' = ReplaceRows(game_participations, game_id, <<>>)
         /\ games' = [k \in DOMAIN games \ {game_id} |-> games[k]]
         /\ in_flight' = Append(in_flight,
                                InFlight(None, PlayerIdsOf(RowsOf(game_participations, game_id))))
         /\ UNCHANGED <<players, nextGameId, teams, golfVars, courseVars, creating, response>>

\* the recomputation of request i: each of its players is loaded and given the tally
\* of the rows committed at this moment; nothing is written to the database yet
stats_read(i) ==
    LET w == in_flight[i]
        ids == IF IsNone(w.game) THEN w.ids
               ELSE PlayerIdsOf(RowsOf(game_participations, Get(w.game)))
        computed == UpdateEach(players, games, game_participations, ids)
    IN  /\ IsNone(w.read)
        /\ in_flight' = [in_flight EXCEPT ![i].read =
                            Some([p \in Range(ids) \cap DOMAIN players |->
                                     [loaded |-> players[p], computed |-> computed[p]]])]
        /\ UNCHANGED <<players, dieVars, teams, golfVars, courseVars, creating, response>>

\* a variant in which the flush writes no column
KeepStored(stored, loaded, computed) == stored

\* the value a column has after the flush: the session writes the columns whose
\* value it changed since it loaded the row, and leaves the others as stored
Flushed(stored, loaded, computed) == IF computed # loaded THEN computed ELSE stored

\* the db.commit() that ends the recomputation of request i, and the reply
stats_commit(i) ==
    LET w == in_flight[i]
        r == Get(w.read)
    IN  /\ ~IsNone(w.read)
        /\ players' = [p \in DOMAIN players |->
              IF p \notin DOMAIN r THEN players[p]
              ELSE LET l == r[p].loaded
                       c == r[p].computed
                   IN  [players[p] EXCEPT
                          !.games_played = Flushed(@, l.games_played, c.games_played),
                          !.games_won = Flushed(@, l.games_won, c.games_won),
                          !.total_points_scored = Flushed(@, l.total_points_scored, c.total_points_scored),
                          !.total_points_against = Flushed(@, l.total_points_against, c.total_points_against),
                          !.win_percentage = Flushed(@, l.win_percentage, c.win_percentage),
                          !.avg_win_margin = Flushed(@, l.avg_win_margin, c.avg_win_margin),
                          !.avg_loss_margin = Flushed(@, l.avg_loss_margin, c.avg_loss_margin)]]
        /\ in_flight' = SubSeq(in_flight, 1, i - 1) \o SubSeq(in_flight, i + 1, Len(in_flight))
        /\ response' = Reply(200)
        /\ UNCHANGED <<dieVars, teams, golfVars, courseVars, creating>>

\* a variant in which the request that was cut short still commits what it computed
CompletedAnyway(i) == stats_commit(i)

\* request i ends before its aggregates are committed: the session is closed, what
\* it had computed is discarded and the rows it committed earlier stay
interrupted(i) ==
    /\ in_flight' = SubSeq(in_flight, 1, i - 1) \o SubSeq(in_flight, i + 1, Len(in_flight))
    /\ players' = close(players,
                        IF IsNone(in_flight[i].read) THEN players
                        ELSE LET r == Get(in_flight[i].read)
                             IN  [p \in DOMAIN players |->
                                    IF p \in DOMAIN r THEN r[p].computed ELSE players[p]])
    /\ response' = Reply(500)
    /\ UNCHANGED <<dieVars, teams, golfVars, courseVars, creating>>

\* schemas.py PlayerOut: the columns of a Player row that a response carries
PlayerOut(pl, p) ==
    [id |-> p, name |-> pl[p].name,
     games_played |-> pl[p].games_played, games_won |-> pl[p].games_won,
     total_points_scored |-> pl[p].total_points_scored,
     total_points_against |-> pl[p].total_points_against,
     win_percentage |-> pl[p].win_percentage,
     avg_loss_margin |-> pl[p].avg_loss_margin, avg_win_margin |-> pl[p].avg_win_margin]

\* db.query(Player).join(participation).filter(parent id, team_number).all()
JoinedPlayers(pl, parts, id, team_number) ==
    {PlayerOut(pl, p) : p \in {q \in DOMAIN pl : q \in Range(PlayerIdsOf(Side(parts, id, team_number)))}}

\* a variant that answers an unknown id with an empty 200 reply
GetGameOrNothing(game_id) ==
    /\ response' = IF game_id \notin DOMAIN games THEN Reply(200)
                   ELSE [status |-> 200, body |-> Some(games[game_id])]
    /\ UNCHANGED <<players, dieVars, teams, golfVars, courseVars, creating, in_flight>>

\* GET /games/{game_id}
get_game(game_id) ==
    /\ response' =
          IF game_id \notin DOMAIN games THEN Reply(404)
          ELSE LET game == games[game_id]
               IN  [status |-> 200,
                    body |-> Some([id |-> game_id,
                                   team1_score |-> game.team1_score,
                                   team2_score |-> game.team2_score,
                                   winner_team |-> game.winner_team,
                                   played_at |-> game.played_at,
                                   team1_players |-> JoinedPlayers(players, game_participations, game_id, 1),
                                   team2_players |-> JoinedPlayers(players, game_participations, game_id, 2)])]
    /\ UNCHANGED <<players, dieVars, teams, golfVars, courseVars, creating, in_flight>>

(***************************************************************************)
(* Team Discovery Engine  (services/team_service.py)                       *)
(***************************************************************************)
RECURSIVE InsertByName(_, _)
InsertByName(name, names) ==
    IF names = <<>> THEN <<name>>
    ELSE IF NameRank(name) <= NameRank(Head(names)) THEN <<name>> \o names
    ELSE <<Head(names)>> \o InsertByName(name, Tail(names))

RECURSIVE SortedByName(_)
SortedByName(names) ==
    IF names = <<>> THEN <<>> ELSE InsertByName(Head(names), SortedByName(Tail(names)))

\* "/".join of the last word of each name, the names taken in sorted order
get_team_name(names) ==
    [i \in DOMAIN names |-> LET n == SortedByName(names)[i] IN n[Len(n)]]

\* team_games[key].append(game_id) on an insertion-ordered dict
Record(team_games, key, game_id) ==
    IF \E i \in DOMAIN team_games : team_games[i].player_ids = key
    THEN [i \in DOMAIN team_games |->
            IF team_games[i].player_ids = key
            THEN [team_games[i] EXCEPT !.game_ids = Append(@, game_id)]
            ELSE team_games[i]]
    ELSE Append(team_games, [player_ids |-> key, game_ids |-> <<game_id>>])

\* a variant that keeps the player ids in the order of the rows
RosterOrder(team_players) == PlayerIdsOf(team_players)

\* player_ids = tuple(sorted([p.player_id for p in team_players]))
TeamKey(team_players) == sorted(PlayerIdsOf(team_players))

\* the inner loop over [team1_players, team2_players] for one game
RecordSides(team_games, parts, game_id) ==
    LET team1_players == Side(parts, game_id, 1)
        team2_players == Side(parts, game_id, 2)
        after1 == IF Len(team1_players) = 3
                  THEN Record(team_games, TeamKey(team1_players), game_id)
                  ELSE team_games
    IN  IF Len(team2_players) = 3
        THEN Record(after1, TeamKey(team2_players), game_id)
        ELSE after1

RECURSIVE AnalyzeFrom(_, _, _)
AnalyzeFrom(team_games, parts, game_ids) ==
    IF game_ids = <<>> THEN team_games
    ELSE AnalyzeFrom(RecordSides(team_games, parts, Head(game_ids)), parts, Tail(game_ids))

\* dict (in insertion order) from sorted player-id triple to the list of game ids
analyze_teams_from_games(gm, parts) == AnalyzeFrom(<<>>, parts, Ascending(DOMAIN gm))

HasKey(team_games, key) == \E i \in DOMAIN team_games : team_games[i].player_ids = key
Lookup(team_games, key) ==
    team_games[CHOOSE i \in DOMAIN team_games : team_games[i].player_ids = key].game_ids

\* a Team row is for the triple when its three player columns equal it
\* a variant that takes any row for the triple's row
AnyRow(row, player_ids) == TRUE

\* Team.player1_id == player_ids[0], player2_id == player_ids[1], player3_id == player_ids[2]
IsTeamOf(row, player_ids) ==
    /\ row.player1_id = player_ids[1]
    /\ row.player2_id = player_ids[2]
    /\ row.player3_id = player_ids[3]

\* the games of game_ids the stats loop does not skip, each with the side the trio played on
TeamGames(gm, parts, player_ids, game_ids) ==
    LET present == SelectSeq(game_ids, LAMBDA g : g \in DOMAIN gm)
        rowsOf(g) == SelectSeq(RowsOf(parts, g), LAMBDA r : r.player_id \in Range(player_ids))
        kept == SelectSeq(present, LAMBDA g : Len(rowsOf(g)) = 3)
    IN  [i \in DOMAIN kept |-> [game_id |-> kept[i], team_number |-> rowsOf(kept[i])[1].team_number]]

\* "Update team stats": the cached columns computed from the trio's games
TeamStatsRow(row, gm, parts, player_ids, game_ids, team_name) ==
    LET tg == TeamGames(gm, parts, player_ids, game_ids)
        wins == SelectSeq(tg, LAMBDA p : IsWin(gm, p))
        losses == SelectSeq(tg, LAMBDA p : ~IsWin(gm, p))
    IN  [row EXCEPT
           !.games_played = Len(game_ids),
           !.games_won = Len(wins),
           !.total_points_scored = SumSeq([i \in DOMAIN tg |-> PlayerScore(gm, tg[i])]),
           !.total_points_against = SumSeq([i \in DOMAIN tg |-> OpponentScore(gm, tg[i])]),
           !.win_percentage = Percentage(Len(wins), Len(game_ids)),
           !.avg_win_margin = Mean([i \in DOMAIN wins |-> PlayerScore(gm, wins[i]) - OpponentScore(gm, wins[i])]),
           !.avg_loss_margin = Mean([i \in DOMAIN losses |-> OpponentScore(gm, losses[i]) - PlayerScore(gm, losses[i])]),
           !.team_name = team_name]

\* models.py Team: a new row for the triple, cached columns at their defaults
NewTeam(player_ids, team_name) ==
    [player1_id |-> player_ids[1], player2_id |-> player_ids[2], player3_id |-> player_ids[3],
     team_name |-> team_name,
     games_played |-> 0, games_won |-> 0,
     total_points_scored |-> 0, total_points_against |-> 0,
     win_percentage |-> Zero, avg_loss_margin |-> Zero, avg_win_margin |-> Zero]

\* a variant with the bar at two games
FewerThanTwoGames(game_ids) == Len(game_ids) < 2

\* if len(game_ids) < 3: don't create teams with less than 3 games
TooFewGames(game_ids) == Len(game_ids) < 3

\* returns the teams table afterwards and the returned Team (None when nothing is returned)
create_or_update_team(tm, pl, gm, parts, player_ids, game_ids) ==
    IF TooFewGames(game_ids)
    THEN [teams |-> tm, team |-> None]
    ELSE
    LET team_name == get_team_name([i \in DOMAIN player_ids |-> pl[player_ids[i]].name])
        exists == \E i \in DOMAIN tm : IsTeamOf(tm[i], player_ids)
        at == IF exists
              THEN CHOOSE i \in DOMAIN tm :
                      IsTeamOf(tm[i], player_ids) /\ \A j \in 1..(i - 1) : ~IsTeamOf(tm[j], player_ids)
              ELSE Len(tm) + 1
        table == IF exists THEN tm ELSE Append(tm, NewTeam(player_ids, team_name))
        row == TeamStatsRow(table[at], gm, parts, player_ids, game_ids, team_name)
    IN  [teams |-> [table EXCEPT ![at] = row], team |-> Some(row)]

\* the loop of rebuild_all_teams over team_games.items()
RECURSIVE CreateEach(_, _, _, _, _)
CreateEach(tm, pl, gm, parts, items) ==
    IF items = <<>> THEN tm
    ELSE CreateEach(create_or_update_team(tm, pl, gm, parts,
                                          Head(items).player_ids, Head(items).game_ids).teams,
                    pl, gm, parts, Tail(items))

rebuild_all_teams ==
    /\ teams' = CreateEach(<<>>, players, games, game_participations,
                           analyze_teams_from_games(games, game_participations))
    /\ response' = Reply(200)
    /\ UNCHANGED <<players, dieVars, golfVars, courseVars, creating, in_flight>>

\* one pass of the loop of update_teams_for_game for the rows of one side
UpdateSide(tm, pl, gm, parts, team_players) ==
    LET player_ids == TeamKey(team_players)
        team_games == analyze_teams_from_games(gm, parts)
    IN  IF Len(team_players) = 3 /\ HasKey(team_games, player_ids)
        THEN create_or_update_team(tm, pl, gm, parts, player_ids, Lookup(team_games, player_ids)).teams
        ELSE tm

update_teams_for_game(game_id) ==
    /\ game_id \in DOMAIN games
    /\ teams' = UpdateSide(UpdateSide(teams, players, games, game_participations,
                                      Side(game_participations, game_id, 1)),
                           players, games, game_participations,
                           Side(game_participations, game_id, 2))
    /\ response' = Reply(200)
    /\ UNCHANGED <<players, dieVars, golfVars, courseVars, creating, in_flight>>

(***************************************************************************)
(* Rivalry Classifier  (services/rivalry_service.py)                       *)
(***************************************************************************)
\* the names of the players of the game's rows with the side marker (rows of unknown players skipped)
TeamNames(pl, parts, game_id, team_number) ==
    LET rows == SelectSeq(RowsOf(parts, game_id),
                          LAMBDA r : r.player_id \in DOMAIN pl
                                     /\ (IF team_number = 1 THEN r.team_number = 1
                                         ELSE r.team_number # 1))
    IN  [i \in DOMAIN rows |-> pl[rows[i].player_id].name]

\* all(player in ORCHARD_PLAYERS ...) and len(...) == 3 and set(...) == set(ORCHARD_PLAYERS)
is_orchard(team_players) ==
    /\ \A i \in DOMAIN team_players : team_players[i] \in Range(ORCHARD_PLAYERS)
    /\ Len(team_players) = 3
    /\ Range(team_players) = Range(ORCHARD_PLAYERS)

\* a variant that only counts the side's players
AnyThreePlayers(team_players) == Len(team_players) = 3

\* all(player in DREHER_PLAYERS ...) and len(...) == 3
is_dreher(team_players) ==
    /\ \A i \in DOMAIN team_players : team_players[i] \in Range(DREHER_PLAYERS)
    /\ Len(team_players) = 3

is_rivalry_game(pl, gm, parts, game_id) ==
    LET team1_players == TeamNames(pl, parts, game_id, 1)
        team2_players == TeamNames(pl, parts, game_id, 2)
        game == gm[game_id]
    IN  IF is_orchard(team1_players) /\ is_dreher(team2_players)
        THEN Some([orchard_team |-> 1, dreher_team |-> 2,
                   orchard_players |-> team1_players, dreher_players |-> team2_players,
                   orchard_score |-> game.team1_score, dreher_score |-> game.team2_score,
                   winner |-> IF game.winner_team = 1 THEN "Orchard" ELSE "Dreher"])
        ELSE IF is_dreher(team1_players) /\ is_orchard(team2_players)
        THEN Some([orchard_team |-> 2, dreher_team |-> 1,
                   orchard_players |-> team2_players, dreher_players |-> team1_players,
                   orchard_score |-> game.team2_score, dreher_score |-> game.team1_score,
                   winner |-> IF game.winner_team = 2 THEN "Orchard" ELSE "Dreher"])
        ELSE None

\* db.query(Game).order_by(Game.played_at.desc()).all(), as game ids
RECURSIVE ByPlayedAtDesc(_, _)
ByPlayedAtDesc(gm, ids) ==
    IF ids = {} THEN <<>>
    ELSE LET latest == CHOOSE g \in ids : \A h \in ids : gm[h].played_at <= gm[g].played_at
         IN  <<latest>> \o ByPlayedAtDesc(gm, ids \ {latest})

\* a variant that keeps every game
EveryGame(rivalry_games) == rivalry_games

\* rivalry_games[:5]
FirstFive(rivalry_games) ==
    SubSeq(rivalry_games, 1, IF Len(rivalry_games) < 5 THEN Len(rivalry_games) ELSE 5)

get_rivalry_games(pl, gm, parts) ==
    LET ordered == ByPlayedAtDesc(gm, DOMAIN gm)
        qualifying == SelectSeq(ordered, LAMBDA g : ~IsNone(is_rivalry_game(pl, gm, parts, g)))
        rivalry_games == [i \in DOMAIN qualifying |->
                            [id |-> qualifying[i],
                             played_at |-> gm[qualifying[i]].played_at,
                             info |-> Get(is_rivalry_game(pl, gm, parts, qualifying[i]))]]
        orchard_wins == Len(SelectSeq(rivalry_games, LAMBDA r : r.info.winner = "Orchard"))
        dreher_wins == Len(SelectSeq(rivalry_games, LAMBDA r : r.info.winner # "Orchard"))
        total_games == Len(rivalry_games)
        total_orchard_points == SumSeq([i \in DOMAIN rivalry_games |-> rivalry_games[i].info.orchard_score])
        total_dreher_points == SumSeq([i \in DOMAIN rivalry_games |-> rivalry_games[i].info.dreher_score])
    IN  [total_games |-> total_games,
         orchard_wins |-> orchard_wins,
         dreher_wins |-> dreher_wins,
         orchard_win_percentage |-> Percentage(orchard_wins, total_games),
         dreher_win_percentage |-> Percentage(dreher_wins, total_games),
         total_orchard_points |-> total_orchard_points,
         total_dreher_points |-> total_dreher_points,
         point_differential |-> total_orchard_points - total_dreher_points,
         recent_games |-> FirstFive(rivalry_games)]

\* GET /rivalry/
get_rivalry_stats ==
    /\ response' = [status |-> 200, body |-> Some(get_rivalry_games(players, games, game_participations))]
    /\ UNCHANGED <<players, dieVars, teams, golfVars, courseVars, creating, in_flight>>

(***************************************************************************)
(* Golf: cached course data read by the round handlers  (models.py)        *)
(***************************************************************************)
\* GolfHoleInput / validate_holes: results for all 18 holes (1-18)
NumHoles == 18

\* The golf_courses rows are kept by id, each with its golf_course_tees rows (course.tees)
\* and each tee with its golf_course_tee_holes rows (tee.holes).  The location and rating
\* columns are copied from the upstream answer like the names and are left out.

\* the 18 holes of a tee as the upstream API lists them: an ordered array without numbers
ApiHoles(base) == [h \in 1..NumHoles |-> [par |-> base + (h % 3), yardage |-> 100 * (base + (h % 3))]]

\* GolfCourseTeeHole rows: hole_number = idx + 1
TeeHoleRows(holes) ==
    [idx \in DOMAIN holes |->
        [hole_number |-> idx, par |-> holes[idx].par, yardage |-> holes[idx].yardage]]

\* the golf_courses row cached before the start, with its one tee
CachedAtStart ==
    [api_id |-> 101, club_name |-> "Rosewood", course_name |-> "Championship",
     tees |-> << [id |-> 1, tee_name |-> "Blue", gender |-> "male",
                  holes |-> TeeHoleRows(ApiHoles(3))] >>]

\* every golf_course_tees row of the table
AllTees(courses) == Concat([c \in 1..Cardinality(DOMAIN courses) |-> courses[c].tees])

\* golf_course_tee_holes rows, by tee_id
golf_course_tee_holes ==
    LET tees == AllTees(golf_courses)
    IN  [tee_id \in {tees[i].id : i \in DOMAIN tees} |->
            (CHOOSE t \in Range(tees) : t.id = tee_id).holes]

(***************************************************************************)
(* Golf: the course cache  (services/golf_course_service.py)               *)
(***************************************************************************)
\* what the upstream API does with GET /courses/{api_id}: the request fails (transport
\* error, timeout or an error status raised by raise_for_status), or it answers with a
\* course document
UpstreamError == [ok |-> FALSE]
UpstreamCourse(club_name, course_name, male, female) ==
    [ok |-> TRUE, club_name |-> club_name, course_name |-> course_name,
     tees |-> [male |-> male, female |-> female]]

\* a variant that finds no row for any id
NothingCached(courses, api_id) == None

\* db.query(GolfCourse).filter(GolfCourse.api_id == api_id).first(): the id of the row
ExistingCourse(courses, api_id) ==
    LET found == {id \in DOMAIN courses : courses[id].api_id = api_id}
    IN  IF found = {} THEN None ELSE Some(CHOOSE id \in found : \A other \in found : id <= other)

\* the GolfCourseTee rows of an upstream answer, male tee sets before female ones, with
\* ids following the tees already stored
NewTeeRows(courses, tees_data) ==
    LET listed == [i \in DOMAIN tees_data.male |-> [gender |-> "male", tee_set |-> tees_data.male[i]]]
                  \o [i \in DOMAIN tees_data.female |-> [gender |-> "female", tee_set |-> tees_data.female[i]]]
        stored == Len(AllTees(courses))
    IN  [i \in DOMAIN listed |->
            [id |-> stored + i,
             tee_name |-> listed[i].tee_set.tee_name,
             gender |-> listed[i].gender,
             holes |-> TeeHoleRows(listed[i].tee_set.holes)]]

\* get_or_cache_course: the table afterwards, the returned row's id (None when the call
\* raises) and whether upstream was contacted
get_or_cache_course(courses, api_id, upstream) ==
    LET found == ExistingCourse(courses, api_id)
        id == Cardinality(DOMAIN courses) + 1
        db_course == [api_id |-> api_id,
                      club_name |-> upstream.club_name,
                      course_name |-> upstream.course_name,
                      tees |-> NewTeeRows(courses, upstream.tees)]
    IN  IF ~IsNone(found)
        THEN [courses |-> courses, course |-> found, contacted |-> FALSE]
        ELSE IF ~upstream.ok
        THEN [courses |-> close(courses, courses), course |-> None, contacted |-> TRUE]
        ELSE [courses |-> [k \in DOMAIN courses \cup {id} |->
                              IF k = id THEN db_course ELSE courses[k]],
              course |-> Some(id), contacted |-> TRUE]

\* schemas.py GolfCourseOut with its tees, each tee's holes sorted by hole_number
GolfCourseOut(courses, id) ==
    [id |-> id,
     api_id |-> courses[id].api_id,
     club_name |-> courses[id].club_name,
     course_name |-> courses[id].course_name,
     tees |-> [i \in DOMAIN courses[id].tees |->
                 LET tee == courses[id].tees[i]
                 IN  [tee EXCEPT !.holes =
                         [h \in 1..Len(tee.holes) |->
                             tee.holes[CHOOSE j \in DOMAIN tee.holes :
                                          Cardinality({k \in DOMAIN tee.holes :
                                                         tee.holes[k].hole_number < tee.holes[j].hole_number})
                                             = h - 1]]]]]

\* GET /golf/courses/{api_id}; upstream is what the upstream API would do if asked
get_course(api_id, upstream) ==
    LET got == get_or_cache_course(golf_courses, api_id, upstream)
    IN  /\ golf_courses' = got.courses
        /\ upstream_requests' = IF got.contacted
                                THEN [upstream_requests EXCEPT ![api_id] = @ + 1]
                                ELSE upstream_requests
        /\ response' = IF IsNone(got.course) THEN Reply(502)
                       ELSE [status |-> 200,
                             body |-> Some(GolfCourseOut(got.courses, Get(got.course)))]
        /\ UNCHANGED <<players, dieVars, teams, golfVars, creating, in_flight>>

(***************************************************************************)
(* Golf: the Aggregate Recalculator  (routers/golf.py)                     *)
(***************************************************************************)
\* db.query(GolfRoundParticipation).filter(player_id == pid).all(), each row with its round_id
GolfParticipationsOf(parts, pid) ==
    LET ids == Ascending(DOMAIN parts)
    IN  Concat([i \in DOMAIN ids |->
                  SelectSeq([j \in DOMAIN parts[ids[i]] |->
                                [round_id |-> ids[i],
                                 player_id |-> parts[ids[i]][j].player_id,
                                 team_number |-> parts[ids[i]][j].team_number]],
                            LAMBDA r : r.player_id = pid)])

\* a variant whose loop leaves a drawn round uncounted
GolfTallyWithoutDraws(rd, parts, pid) ==
    LET all_participations == GolfParticipationsOf(parts, pid)
        counted == SelectSeq(all_participations, LAMBDA p : p.round_id \in DOMAIN rd)
        own(p) == IF p.team_number = 1 THEN rd[p.round_id].team1_holes_won
                  ELSE rd[p.round_id].team2_holes_won
        other(p) == IF p.team_number = 1 THEN rd[p.round_id].team2_holes_won
                    ELSE rd[p.round_id].team1_holes_won
        drawn == SelectSeq(counted, LAMBDA p : IsNone(rd[p.round_id].winner_team))
        won == SelectSeq(counted, LAMBDA p : rd[p.round_id].winner_team = Some(p.team_number))
        lost == SelectSeq(counted, LAMBDA p : ~IsNone(rd[p.round_id].winner_team)
                                              /\ rd[p.round_id].winner_team # Some(p.team_number))
    IN  [rounds_played |-> Len(all_participations),
         rounds_won |-> Len(won),
         rounds_lost |-> Len(lost),
         rounds_drawn |-> 0,
         holes_won |-> SumSeq([i \in DOMAIN counted |-> own(counted[i])]),
         holes_lost |-> SumSeq([i \in DOMAIN counted |-> other(counted[i])])]

\* the values the loop of _update_single_player_golf_stats accumulates
GolfTally(rd, parts, pid) ==
    LET all_participations == GolfParticipationsOf(parts, pid)
        counted == SelectSeq(all_participations, LAMBDA p : p.round_id \in DOMAIN rd)
        own(p) == IF p.team_number = 1 THEN rd[p.round_id].team1_holes_won
                  ELSE rd[p.round_id].team2_holes_won
        other(p) == IF p.team_number = 1 THEN rd[p.round_id].team2_holes_won
                    ELSE rd[p.round_id].team1_holes_won
        drawn == SelectSeq(counted, LAMBDA p : IsNone(rd[p.round_id].winner_team))
        won == SelectSeq(counted, LAMBDA p : rd[p.round_id].winner_team = Some(p.team_number))
        lost == SelectSeq(counted, LAMBDA p : ~IsNone(rd[p.round_id].winner_team)
                                              /\ rd[p.round_id].winner_team # Some(p.team_number))
    IN  [rounds_played |-> Len(all_participations),
         rounds_won |-> Len(won),
         rounds_lost |-> Len(lost),
         rounds_drawn |-> Len(drawn),
         holes_won |-> SumSeq([i \in DOMAIN counted |-> own(counted[i])]),
         holes_lost |-> SumSeq([i \in DOMAIN counted |-> other(counted[i])])]

GolfStatsRow(row, t) ==
    [row EXCEPT !.golf_rounds_played = t.rounds_played,
                !.golf_rounds_won = t.rounds_won,
                !.golf_rounds_lost = t.rounds_lost,
                !.golf_rounds_drawn = t.rounds_drawn,
                !.golf_holes_won = t.holes_won,
                !.golf_holes_lost = t.holes_lost,
                !.golf_win_percentage = Percentage(t.rounds_won, t.rounds_played)]

_update_single_player_golf_stats(pl, rd, parts, pid) ==
    IF pid \notin DOMAIN pl THEN pl
    ELSE [pl EXCEPT ![pid] = GolfStatsRow(pl[pid], GolfTally(rd, parts, pid))]

RECURSIVE UpdateEachGolf(_, _, _, _)
UpdateEachGolf(pl, rd, parts, ids) ==
    IF ids = <<>> THEN pl
    ELSE UpdateEachGolf(_update_single_player_golf_stats(pl, rd, parts, Head(ids)), rd, parts, Tail(ids))

_update_golf_stats_for_round(pl, rd, parts, round_id) ==
    UpdateEachGolf(pl, rd, parts, PlayerIdsOf(RowsOf(parts, round_id)))

\* sum(1 for h in holes if h.winner_team == w)
HolesWith(holes, w) == Len(SelectSeq(holes, LAMBDA h : h.winner_team = w))

\* a variant that gives a round with equal counts to side 2
RoundResultsWithoutDraw(holes) ==
    LET team1_won == HolesWith(holes, Some(1))
        team2_won == HolesWith(holes, Some(2))
    IN  [team1_won |-> team1_won, team2_won |-> team2_won,
         halved |-> HolesWith(holes, None),
         winner |-> IF team1_won > team2_won THEN Some(1) ELSE Some(2)]

_calculate_round_results(holes) ==
    LET team1_won == HolesWith(holes, Some(1))
        team2_won == HolesWith(holes, Some(2))
        halved == HolesWith(holes, None)
    IN  [team1_won |-> team1_won, team2_won |-> team2_won, halved |-> halved,
         winner |-> IF team1_won > team2_won THEN Some(1)
                    ELSE IF team2_won > team1_won THEN Some(2)
                    ELSE None]

(***************************************************************************)
(* Golf: the round handlers  (routers/golf.py, schemas/schemas.py)         *)
(***************************************************************************)
\* sorted(hole_numbers) == list(range(1, 19))
validate_holes(holes) ==
    IsNone(holes) \/ sorted([i \in DOMAIN Get(holes) |-> Get(holes)[i].hole_number])
                        = [h \in 1..NumHoles |-> h]

\* tee_hole_map = {h.hole_number: h for h in tee_holes} when a tee id is given
TeeHoleMap(tee_id) ==
    IF ~IsNone(tee_id) /\ Get(tee_id) \in DOMAIN golf_course_tee_holes
    THEN golf_course_tee_holes[Get(tee_id)]
    ELSE <<>>

\* the GolfHoleResult rows for the submitted holes, par and yardage snapshot from the tee
HoleRows(holes, tee_hole_map) ==
    [i \in DOMAIN holes |->
        LET hole == holes[i]
            mapped == hole.hole_number \in DOMAIN tee_hole_map
        IN  [hole_number |-> hole.hole_number,
             winner_team |-> hole.winner_team,
             par |-> IF mapped /\ IsNone(hole.par)
                     THEN Some(tee_hole_map[hole.hole_number].par) ELSE hole.par,
             yardage |-> IF mapped /\ IsNone(hole.yardage)
                         THEN Some(tee_hole_map[hole.hole_number].yardage) ELSE hole.yardage]]

create_golf_round(team1_players, team2_players, course, course_id, tee_id, holes) ==
    LET all_player_ids == team1_players \o team2_players
        res == _calculate_round_results(holes)
        course_name == IF IsNone(course) /\ ~IsNone(course_id) /\ Get(course_id) \in DOMAIN golf_courses
                       THEN <<golf_courses[Get(course_id)].club_name, "-",
                              golf_courses[Get(course_id)].course_name>>
                       ELSE course
        id == nextRoundId
        rd == [k \in DOMAIN golf_rounds \cup {id} |->
                 IF k = id THEN [course |-> course_name,
                                 team1_holes_won |-> res.team1_won,
                                 team2_holes_won |-> res.team2_won,
                                 halved_holes |-> res.halved,
                                 winner_team |-> res.winner,
                                 course_id |-> course_id,
                                 tee_id |-> tee_id]
                 ELSE golf_rounds[k]]
        parts == ReplaceRows(golf_round_participations, id,
                             SideRows(team1_players, 1) \o SideRows(team2_players, 2))
    IN  IF ~validate_unique_players(Some(team1_players), Some(team2_players))
           \/ ~validate_holes(Some(holes))
        THEN response' = Reply(422)
             /\ UNCHANGED <<players, dieVars, teams, golfVars, courseVars, creating, in_flight>>
        ELSE IF Cardinality(PlayersIn(players, all_player_ids)) # 4
        THEN response' = Reply(400)
             /\ UNCHANGED <<players, dieVars, teams, golfVars, courseVars, creating, in_flight>>
        ELSE /\ golf_rounds' = rd
             /\ golf_round_participations' = parts
             /\ golf_hole_results' = ReplaceRows(golf_hole_results, id, HoleRows(holes, TeeHoleMap(tee_id)))
             /\ nextRoundId' = nextRoundId + 1
             /\ players' = _update_golf_stats_for_round(players, rd, parts, id)
             /\ response' = Reply(200)
             /\ UNCHANGED <<dieVars, teams, courseVars, creating, in_flight>>

update_golf_round(round_id, team1_players, team2_players, course, course_id, tee_id, holes) ==
    IF ~validate_unique_players(team1_players, team2_players) \/ ~validate_holes(holes)
    THEN response' = Reply(422)
         /\ UNCHANGED <<players, dieVars, teams, golfVars, courseVars, creating, in_flight>>
    ELSE IF round_id \notin DOMAIN golf_rounds
    THEN response' = Reply(404)
         /\ UNCHANGED <<players, dieVars, teams, golfVars, courseVars, creating, in_flight>>
    ELSE
    LET old == golf_rounds[round_id]
        fields == [old EXCEPT !.course = IF IsNone(course) THEN @ ELSE Get(course),
                              !.course_id = IF IsNone(course_id) THEN @ ELSE course_id,
                              !.tee_id = IF IsNone(tee_id) THEN @ ELSE tee_id]
        rosters == ~IsNone(team1_players) \/ ~IsNone(team2_players)
        existing == Range(PlayerIdsOf(RowsOf(golf_round_participations, round_id)))
        new1 == IF IsNone(team1_players) THEN <<>> ELSE Get(team1_players)
        new2 == IF IsNone(team2_players) THEN <<>> ELSE Get(team2_players)
        new_ids == new1 \o new2
        affected == IF rosters THEN all_affected_player_ids(existing, new_ids) ELSE {}
        parts == IF rosters
                 THEN ReplaceRows(golf_round_participations, round_id,
                                  SideRows(new1, 1) \o SideRows(new2, 2))
                 ELSE golf_round_participations
        res == _calculate_round_results(Get(holes))
        row == IF IsNone(holes) THEN fields
               ELSE [fields EXCEPT !.team1_holes_won = res.team1_won,
                                   !.team2_holes_won = res.team2_won,
                                   !.halved_holes = res.halved,
                                   !.winner_team = res.winner]
        rd == [golf_rounds EXCEPT ![round_id] = row]
    IN  IF rosters /\ Cardinality(PlayersIn(players, new_ids)) # Len(new_ids)
        THEN response' = Reply(400)
             /\ golf_rounds' = close(golf_rounds, [golf_rounds EXCEPT ![round_id] = fields])
             /\ UNCHANGED <<players, dieVars, teams, golf_round_participations,
                            golf_hole_results, nextRoundId, courseVars, creating, in_flight>>
        ELSE /\ golf_rounds' = rd
             /\ golf_round_participations' = parts
             /\ golf_hole_results' =
                   IF IsNone(holes) THEN golf_hole_results
                   ELSE ReplaceRows(golf_hole_results, round_id,
                                    HoleRows(Get(holes), TeeHoleMap(fields.tee_id)))
             /\ players' = IF affected # {}
                           THEN UpdateEachGolf(players, rd, parts, Ascending(affected))
                           ELSE _update_golf_stats_for_round(players, rd, parts, round_id)
             /\ response' = Reply(200)
             /\ UNCHANGED <<nextRoundId, dieVars, teams, courseVars, creating, in_flight>>

delete_golf_round(round_id) ==
    IF round_id \notin DOMAIN golf_rounds
    THEN response' = Reply(404)
         /\ UNCHANGED <<players, dieVars, teams, golfVars, courseVars, creating, in_flight>>
    ELSE
    LET affected_player_ids == PlayerIdsOf(RowsOf(golf_round_participations, round_id))
        parts == ReplaceRows(golf_round_participations, round_id, <<>>)
        rd == [k \in DOMAIN golf_rounds \ {round_id} |-> golf_rounds[k]]
    IN  /\ golf_hole_results' = ReplaceRows(golf_hole_results, round_id, <<>>)
        /\ golf_round_participations' = parts
        /\ golf_rounds' = rd
        /\ players' = UpdateEachGolf(players, rd, parts, affected_player_ids)
        /\ response' = Reply(200)
        /\ UNCHANGED <<nextRoundId, dieVars, teams, courseVars, creating, in_flight>>

\* GET /golf/rounds/{round_id}
get_golf_round(round_id) ==
    /\ response' =
          IF round_id \notin DOMAIN golf_rounds THEN Reply(404)
          ELSE LET golf_round == golf_rounds[round_id]
                   hole_results == RowsOf(golf_hole_results, round_id)
                   by_number == [h \in 1..Len(hole_results) |->
                                    hole_results[CHOOSE i \in DOMAIN hole_results :
                                                    hole_results[i].hole_number = h]]
               IN  [status |-> 200,
                    body |-> Some([id |-> round_id,
                                   course |-> golf_round.course,
                                   team1_holes_won |-> golf_round.team1_holes_won,
                                   team2_holes_won |-> golf_round.team2_holes_won,
                                   halved_holes |-> golf_round.halved_holes,
                                   winner_team |-> golf_round.winner_team,
                                   course_id |-> golf_round.course_id,
                                   tee_id |-> golf_round.tee_id,
                                   team1_players |-> JoinedPlayers(players, golf_round_participations, round_id, 1),
                                   team2_players |-> JoinedPlayers(players, golf_round_participations, round_id, 2),
                                   hole_results |-> by_number,
                                   golf_course |-> IF ~IsNone(golf_round.course_id)
                                                      /\ Get(golf_round.course_id) \in DOMAIN golf_courses
                                                   THEN Some(golf_courses[Get(golf_round.course_id)])
                                                   ELSE None])]
    /\ UNCHANGED <<players, dieVars, teams, golfVars, courseVars, creating, in_flight>>

(***************************************************************************)
(* Season-scoped player statistics  (routers/players.py)                   *)
(***************************************************************************)
\* extract('year', Game.played_at); the clock of the model passes a new year at every
\* second insert: tick 1 is in 2025, ticks 2 and 3 in 2026, ticks 4 and 5 in 2027
year(played_at) == 2025 + (played_at \div 2)

\* int(season) for the season strings in use
int(season) == CASE season = "2024" -> 2024
                 [] season = "2025" -> 2025
                 [] season = "2026" -> 2026
                 [] season = "2027" -> 2027

\* a variant that applies no year filter
AllGames(gm, season) == gm

\* games_query: filtered to the year when season is given and is not 'all'
SeasonGames(gm, season) ==
    IF ~IsNone(season) /\ Get(season) # "all"
    THEN [g \in {h \in DOMAIN gm : year(gm[h].played_at) = int(Get(season))} |-> gm[g]]
    ELSE gm

_compute_player_season_stats(gm, parts, pid, season) ==
    LET participations == ParticipationsOf(parts, pid)
        games_ == SeasonGames([g \in {participations[i].game_id : i \in DOMAIN participations}
                                   \cap DOMAIN gm |-> gm[g]], season)
        counted == SelectSeq(participations, LAMBDA p : p.game_id \in DOMAIN games_)
        wins == SelectSeq(counted, LAMBDA p : games_[p.game_id].winner_team = p.team_number)
        losses == SelectSeq(counted, LAMBDA p : games_[p.game_id].winner_team # p.team_number)
        p_score(p) == IF p.team_number = 1 THEN games_[p.game_id].team1_score
                      ELSE games_[p.game_id].team2_score
        o_score(p) == IF p.team_number = 1 THEN games_[p.game_id].team2_score
                      ELSE games_[p.game_id].team1_score
        win_margins == [i \in DOMAIN wins |-> p_score(wins[i]) - o_score(wins[i])]
        loss_margins == [i \in DOMAIN losses |-> o_score(losses[i]) - p_score(losses[i])]
    IN  IF participations = <<>>
        THEN [games_played |-> 0, games_won |-> 0, win_percentage |-> Zero,
              avg_win_margin |-> Zero, avg_loss_margin |-> Zero,
              total_points_scored |-> 0, total_points_against |-> 0]
        ELSE [games_played |-> Len(counted),
              games_won |-> Len(wins),
              win_percentage |-> Percentage(Len(wins), Len(counted)),
              avg_win_margin |-> Mean(win_margins),
              avg_loss_margin |-> Mean(loss_margins),
              total_points_scored |-> SumSeq([i \in DOMAIN counted |-> p_score(counted[i])]),
              total_points_against |-> SumSeq([i \in DOMAIN counted |-> o_score(counted[i])])]

\* the stats of the reply: computed for a year season, the cached columns otherwise
PlayerStatsOf(pl, gm, parts, player_id, season) ==
    IF ~IsNone(season) /\ Get(season) # "all"
    THEN _compute_player_season_stats(gm, parts, player_id, season)
    ELSE [games_played |-> pl[player_id].games_played,
          games_won |-> pl[player_id].games_won,
          win_percentage |-> pl[player_id].win_percentage,
          avg_win_margin |-> pl[player_id].avg_win_margin,
          avg_loss_margin |-> pl[player_id].avg_loss_margin,
          total_points_scored |-> pl[player_id].total_points_scored,
          total_points_against |-> pl[player_id].total_points_against]

\* GET /players/{player_id}/stats: the stats and the player's last 3 games, never filtered
get_player_stats(player_id, season) ==
    /\ response' =
          IF player_id \notin DOMAIN players THEN Reply(404)
          ELSE LET joined == {g \in DOMAIN games :
                                 \E i \in DOMAIN RowsOf(game_participations, g) :
                                    game_participations[g][i].player_id = player_id}
                   ordered == ByPlayedAtDesc(games, joined)
               IN  [status |-> 200,
                    body |-> Some([id |-> player_id,
                                   name |-> players[player_id].name,
                                   stats |-> PlayerStatsOf(players, games, game_participations,
                                                           player_id, season),
                                   recent_games |-> SubSeq(ordered, 1,
                                                           IF Len(ordered) < 3 THEN Len(ordered) ELSE 3)])]
    /\ UNCHANGED <<players, dieVars, teams, golfVars, courseVars, creating, in_flight>>

(***************************************************************************)
(* Team listing  (routers/teams.py)                                        *)
(***************************************************************************)
\* the games where the row's three players have three participations with one side
\* marker, newest first, each with that side marker; filtered to the year for a season
_get_team_games(team, gm, parts, season) ==
    LET player_ids == {team.player1_id, team.player2_id, team.player3_id}
        joined == {g \in DOMAIN gm :
                      \E i \in DOMAIN RowsOf(parts, g) : parts[g][i].player_id \in player_ids}
        games_ == ByPlayedAtDesc(gm, DOMAIN SeasonGames([g \in joined |-> gm[g]], season))
        participations(g) == SelectSeq(RowsOf(parts, g), LAMBDA r : r.player_id \in player_ids)
        valid == SelectSeq(games_,
                           LAMBDA g : /\ Len(participations(g)) = 3
                                      /\ Cardinality({participations(g)[i].team_number : i \in 1..3}) = 1)
    IN  [i \in DOMAIN valid |->
            [game_id |-> valid[i], team_number |-> participations(valid[i])[1].team_number]]

_compute_team_season_stats(team, gm, parts, season) ==
    LET valid_games == _get_team_games(team, gm, parts, season)
        wins == SelectSeq(valid_games, LAMBDA p : gm[p.game_id].winner_team = p.team_number)
        losses == SelectSeq(valid_games, LAMBDA p : gm[p.game_id].winner_team # p.team_number)
        t_score(p) == IF p.team_number = 1 THEN gm[p.game_id].team1_score
                      ELSE gm[p.game_id].team2_score
        o_score(p) == IF p.team_number = 1 THEN gm[p.game_id].team2_score
                      ELSE gm[p.game_id].team1_score
    IN  [games_played |-> Len(valid_games),
         games_won |-> Len(wins),
         win_percentage |-> Percentage(Len(wins), Len(valid_games)),
         avg_win_margin |-> Mean([i \in DOMAIN wins |-> t_score(wins[i]) - o_score(wins[i])]),
         avg_loss_margin |-> Mean([i \in DOMAIN losses |-> o_score(losses[i]) - t_score(losses[i])]),
         total_points_scored |-> SumSeq([i \in DOMAIN valid_games |-> t_score(valid_games[i])]),
         total_points_against |-> SumSeq([i \in DOMAIN valid_games |-> o_score(valid_games[i])])]

\* a variant with the bar fixed at three games
ThreeGamesRequired(total_games) == 3

\* max(3, math.ceil(total_games * 0.1)); the float product rounds up to the same integer
\* as the exact tenth for every count below 2000
min_games_required(total_games) ==
    LET tenth == (total_games + 9) \div 10
    IN  IF tenth > 3 THEN tenth ELSE 3

\* a fraction is greater than another
Greater(a, b) == a[1] * b[2] > b[1] * a[2]

\* the row comes before the other under the all-time ordering: win_percentage, then
\* games_played, then point differential, each descending
AllTimeBefore(a, b) ==
    \/ Greater(a.win_percentage, b.win_percentage)
    \/ /\ a.win_percentage = b.win_percentage
       /\ \/ a.games_played > b.games_played
          \/ /\ a.games_played = b.games_played
             /\ a.total_points_scored - a.total_points_against
                   > b.total_points_scored - b.total_points_against

\* the row comes before the other under the season ordering: (-win_percentage, -games_played)
SeasonBefore(a, b) ==
    \/ Greater(a.win_percentage, b.win_percentage)
    \/ a.win_percentage = b.win_percentage /\ a.games_played > b.games_played

\* rows in the given order, rows that tie staying in table order
RECURSIVE SortRows(_, _)
SortRows(rows, season) ==
    IF rows = <<>> THEN <<>>
    ELSE LET before(a, b) == IF season THEN SeasonBefore(a, b) ELSE AllTimeBefore(a, b)
             first == CHOOSE i \in DOMAIN rows :
                         /\ \A j \in DOMAIN rows : ~before(rows[j], rows[i])
                         /\ \A j \in 1..(i - 1) : before(rows[i], rows[j])
         IN  <<rows[first]>> \o SortRows(SubSeq(rows, 1, first - 1)
                                           \o SubSeq(rows, first + 1, Len(rows)), season)

\* GET /teams/
list_teams(season) ==
    /\ response' =
          LET total_games == Cardinality(DOMAIN games)
          IN  IF ~IsNone(season) /\ Get(season) # "all"
              THEN LET with_stats ==
                          [i \in DOMAIN teams |->
                              LET stats == _compute_team_season_stats(teams[i], games,
                                                                      game_participations, season)
                              IN  [teams[i] EXCEPT
                                      !.games_played = stats.games_played,
                                      !.games_won = stats.games_won,
                                      !.total_points_scored = stats.total_points_scored,
                                      !.total_points_against = stats.total_points_against,
                                      !.win_percentage = stats.win_percentage,
                                      !.avg_loss_margin = stats.avg_loss_margin,
                                      !.avg_win_margin = stats.avg_win_margin]]
                       season_teams == SelectSeq(with_stats, LAMBDA t : t.games_played # 0)
                   IN  [status |-> 200,
                        body |-> Some([teams |-> SortRows(season_teams, TRUE),
                                       total_games |-> total_games,
                                       min_games_required |-> 1,
                                       threshold_percentage |-> Zero])]
              ELSE LET required == min_games_required(total_games)
                       listed == SelectSeq(teams, LAMBDA t : t.games_played >= required)
                   IN  [status |-> 200,
                        body |-> Some([teams |-> SortRows(listed, FALSE),
                                       total_games |-> total_games,
                                       min_games_required |-> required,
                                       threshold_percentage |-> <<10, 1>>])]
    /\ UNCHANGED <<players, dieVars, teams, golfVars, courseVars, creating, in_flight>>

(***************************************************************************)
(* Player leaderboard  (routers/players.py)                                *)
(***************************************************************************)
\* a variant that skips no player
SkipNobody(stats, season) == FALSE

\* if stats['games_played'] == 0 and (season and season != 'all'): continue
SkipPlayer(stats, season) ==
    stats.games_played = 0 /\ ~IsNone(season) /\ Get(season) # "all"

\* GET /players/leaderboard: the players in table order, each with season or cached
\* statistics, sorted by (-win_percentage, -games_played)
get_leaderboard(season) ==
    /\ response' =
          LET ids == Ascending(DOMAIN players)
              kept == SelectSeq(ids, LAMBDA p : ~SkipPlayer(PlayerStatsOf(players, games, game_participations,
                                                                          p, season), season))
              results == [i \in DOMAIN kept |->
                            LET stats == PlayerStatsOf(players, games, game_participations, kept[i], season)
                            IN  [id |-> kept[i],
                                 name |-> players[kept[i]].name,
                                 recent_games |-> <<>>,
                                 games_played |-> stats.games_played,
                                 games_won |-> stats.games_won,
                                 win_percentage |-> stats.win_percentage,
                                 avg_win_margin |-> stats.avg_win_margin,
                                 avg_loss_margin |-> stats.avg_loss_margin,
                                 total_points_scored |-> stats.total_points_scored,
                                 total_points_against |-> stats.total_points_against]]
          IN  [status |-> 200, body |-> Some([results |-> SortRows(results, TRUE)])]
    /\ UNCHANGED <<players, dieVars, teams, golfVars, courseVars, creating, in_flight>>

(***************************************************************************)
(* External course ids                                                     *)
(***************************************************************************)
\* the GolfCourseAPI ids named by requests: the course cached before the start, a course
\* upstream knows, and an id upstream has no course for
CourseApiIds == {101, 202, 303}

(***************************************************************************)
(* Start state                                                             *)
(***************************************************************************)
Init ==
    /\ players = [i \in PlayerIds |-> NewPlayer(InitialNames[i])]
    /\ games = <<>>
    /\ game_participations = <<>>
    /\ nextGameId = 1
    /\ teams = <<>>
    /\ golf_rounds = <<>>
    /\ golf_round_participations = <<>>
    /\ golf_hole_results = <<>>
    /\ nextRoundId = 1
    /\ golf_courses = [id \in {1} |-> CachedAtStart]
    /\ upstream_requests = [api_id \in CourseApiIds |-> 0]
    /\ creating = <<>>
    /\ in_flight = <<>>
    /\ response = Reply(200)

(***************************************************************************)
(* Requests                                                                *)
(***************************************************************************)
\* final scores submitted with a new game: a side-1 win, a side-2 win and a tie
CreateScores == {<<21, 15>>, <<15, 21>>, <<21, 21>>}

\* rosters submitted with a new game; the last three are a repeated id within a
\* side, an id on both sides and an id of no player
CreateRosters == {<< <<1, 2, 3>>, <<4, 5, 6>> >>,
                  << <<1, 1, 2>>, <<4, 5, 6>> >>,
                  << <<1, 2, 3>>, <<3, 4, 5>> >>,
                  << <<1, 2, 3>>, <<4, 5, 9>> >>}

\* a GameUpdate body; an absent field is None
GameUpdate(team1_score, team2_score, team1_players, team2_players) ==
    [team1_score |-> team1_score, team2_score |-> team2_score,
     team1_players |-> team1_players, team2_players |-> team2_players]

\* bodies submitted to update_game: a score, one side's roster, both rosters with a
\* score, and a roster repeating an id sent together with a score
GameUpdates == {GameUpdate(Some(15), None, None, None),
                GameUpdate(None, None, Some(<<4, 5, 6>>), None),
                GameUpdate(None, None, None, Some(<<1, 2, 3>>)),
                GameUpdate(Some(21), None, Some(<<4, 5, 6>>), Some(<<1, 2, 3>>)),
                GameUpdate(Some(15), None, Some(<<1, 1, 2>>), None)}

(***************************************************************************)
(* Specification of the Die game writes                                    *)
(***************************************************************************)
DieCreate ==
    \E r \in CreateRosters, s \in CreateScores :
        nextGameId <= MaxStatGames /\ create_game(r[1], r[2], s[1], s[2])

DieUpdate ==
    \E g \in 1..MaxStatGames, u \in GameUpdates :
        update_game(g, u.team1_score, u.team2_score, u.team1_players, u.team2_players)

DieDelete == \E g \in 1..MaxStatGames : delete_game(g)

NextDie == DieCreate \/ DieUpdate \/ DieDelete

SpecDie == Init /\ [][NextDie]_vars

(***************************************************************************)
(* Specification of the golf round writes                                  *)
(***************************************************************************)
\* 18 GolfHoleInput: the first won1 holes to side 1, the next won2 to side 2, the rest halved
Holes(won1, won2) ==
    [h \in 1..NumHoles |->
        [hole_number |-> h,
         winner_team |-> IF h <= won1 THEN Some(1)
                         ELSE IF h <= won1 + won2 THEN Some(2) ELSE None,
         par |-> None,
         yardage |-> None]]

\* hole sets submitted: side 1 wins 10-6, side 2 wins 6-10, a draw 8-8
HoleSets == {Holes(10, 6), Holes(6, 10), Holes(8, 8)}

\* a hole set that names hole 1 twice and hole 18 never
BadHoles == [Holes(8, 8) EXCEPT ![NumHoles].hole_number = 1]

\* rosters submitted with a new round; the last two are a repeated id and an id of no player
RoundRosters == {<< <<1, 2>>, <<3, 4>> >>,
                 << <<1, 1>>, <<3, 4>> >>,
                 << <<1, 2>>, <<3, 9>> >>}

\* a GolfRoundUpdate body; an absent field is None
GolfRoundUpdate(team1_players, team2_players, tee_id, holes) ==
    [team1_players |-> team1_players, team2_players |-> team2_players,
     course |-> None, course_id |-> None, tee_id |-> tee_id, holes |-> holes]

\* bodies submitted to update_golf_round: one side's roster, both rosters with holes,
\* holes only, holes with a tee, and a roster naming no player sent with holes
GolfRoundUpdates == {GolfRoundUpdate(Some(<<3, 4>>), None, None, None),
                     GolfRoundUpdate(Some(<<5, 6>>), Some(<<1, 2>>), None, Some(Holes(6, 10))),
                     GolfRoundUpdate(None, None, None, Some(Holes(8, 8))),
                     GolfRoundUpdate(None, None, Some(1), Some(Holes(10, 6))),
                     GolfRoundUpdate(Some(<<1, 9>>), None, None, Some(Holes(8, 8)))}

GolfCreate ==
    \E r \in RoundRosters, h \in HoleSets \cup {BadHoles} :
        nextRoundId <= MaxRounds
        /\ create_golf_round(r[1], r[2], Some(<<"Muni">>), None, None, h)

GolfUpdate ==
    \E id \in 1..MaxRounds, u \in GolfRoundUpdates :
        update_golf_round(id, u.team1_players, u.team2_players,
                          u.course, u.course_id, u.tee_id, u.holes)

GolfDelete == \E id \in 1..MaxRounds : delete_golf_round(id)

NextGolf == GolfCreate \/ GolfUpdate \/ GolfDelete

SpecGolf == Init /\ [][NextGolf]_vars

(***************************************************************************)
(* Specification of team discovery over the Die game writes                *)
(***************************************************************************)
\* games of the team-discovery runs: the trio 1,2,3 on either side and in two input
\* orders, against two different trios
TeamGamesPlayed == {[team1_players |-> <<3, 1, 2>>, team2_players |-> <<4, 5, 6>>,
                     team1_score |-> 21, team2_score |-> 15],
                    [team1_players |-> <<4, 5, 7>>, team2_players |-> <<1, 2, 3>>,
                     team1_score |-> 21, team2_score |-> 18]}

\* updates of the team-discovery runs: a new side 1 only
TeamUpdates == {GameUpdate(None, None, Some(<<1, 2, 8>>), None)}

TeamsCreate ==
    \E g \in TeamGamesPlayed :
        nextGameId <= MaxGames
        /\ create_game(g.team1_players, g.team2_players, g.team1_score, g.team2_score)

TeamsUpdate ==
    \E g \in 1..MaxGames, u \in TeamUpdates :
        update_game(g, u.team1_score, u.team2_score, u.team1_players, u.team2_players)

TeamsDelete == \E g \in 1..MaxGames : delete_game(g)

TeamsRebuild == rebuild_all_teams

TeamsUpdateForGame == \E g \in 1..MaxGames : update_teams_for_game(g)

NextTeams == TeamsCreate \/ TeamsUpdate \/ TeamsDelete \/ TeamsRebuild \/ TeamsUpdateForGame

SpecTeams == Init /\ [][NextTeams]_vars

(***************************************************************************)
(* Specification of the rivalry read over the Die game writes              *)
(***************************************************************************)
\* Orchard against three of Dreher (either way round), Orchard against a side with an
\* outsider, and a side with two of Orchard against three of Dreher
RivalryRosters == {<< <<1, 2, 3>>, <<4, 5, 6>> >>,
                   << <<4, 6, 7>>, <<3, 2, 1>> >>,
                   << <<1, 2, 3>>, <<4, 5, 8>> >>,
                   << <<1, 2, 8>>, <<4, 5, 6>> >>}

RivalryUpdates == {GameUpdate(None, None, None, Some(<<5, 6, 7>>))}

RivalryCreate ==
    \E r \in RivalryRosters, s \in CreateScores :
        nextGameId <= MaxRivalryGames /\ create_game(r[1], r[2], s[1], s[2])

RivalryUpdate ==
    \E g \in 1..MaxRivalryGames, u \in RivalryUpdates :
        update_game(g, u.team1_score, u.team2_score, u.team1_players, u.team2_players)

RivalryDelete == \E g \in 1..MaxRivalryGames : delete_game(g)

RivalryRead == get_rivalry_stats

NextRivalry == RivalryCreate \/ RivalryUpdate \/ RivalryDelete \/ RivalryRead

SpecRivalry == Init /\ [][NextRivalry]_vars

(***************************************************************************)
(* Specification of both sports' writes                                    *)
(***************************************************************************)
\* final scores submitted with a new game: a side-1 win and a tie
LeagueScores == {<<21, 15>>, <<21, 21>>}

\* a body that gives only team2_players, naming the players of side 1
LeagueGameUpdates == {GameUpdate(None, None, None, Some(<<1, 2, 3>>))}

\* hole sets submitted with a new round: side 1 wins 10-6 and a draw 8-8
LeagueHoleSets == {Holes(10, 6), Holes(8, 8)}

\* bodies that give only the holes and only team1_players
LeagueRoundUpdates == {GolfRoundUpdate(None, None, None, Some(Holes(8, 8))),
                       GolfRoundUpdate(Some(<<3, 4>>), None, None, None)}

LeagueGameCreate ==
    \E s \in LeagueScores :
        nextGameId <= MaxLeagueGames /\ create_game(<<1, 2, 3>>, <<4, 5, 6>>, s[1], s[2])

LeagueGameUpdate ==
    \E g \in 1..MaxLeagueGames, u \in LeagueGameUpdates :
        update_game(g, u.team1_score, u.team2_score, u.team1_players, u.team2_players)

LeagueGameDelete == \E g \in 1..MaxLeagueGames : delete_game(g)

LeagueRoundCreate ==
    \E h \in LeagueHoleSets :
        nextRoundId <= MaxLeagueRounds
        /\ create_golf_round(<<1, 2>>, <<3, 4>>, Some(<<"Muni">>), None, None, h)

LeagueRoundUpdate ==
    \E id \in 1..MaxLeagueRounds, u \in LeagueRoundUpdates :
        update_golf_round(id, u.team1_players, u.team2_players,
                          u.course, u.course_id, u.tee_id, u.holes)

LeagueRoundDelete == \E id \in 1..MaxLeagueRounds : delete_golf_round(id)

NextLeague ==
    \/ LeagueGameCreate \/ LeagueGameUpdate \/ LeagueGameDelete
    \/ LeagueRoundCreate \/ LeagueRoundUpdate \/ LeagueRoundDelete

SpecLeague == Init /\ [][NextLeague]_vars

(***************************************************************************)
(* Specification of accepted and rejected writes of both sports            *)
(***************************************************************************)
\* ids the games and golf_rounds tables may hand out in this specification
MaxRejectGames == 2
MaxRejectRounds == 2

\* rosters submitted with a new game: a valid one, one repeating an id within a side and
\* one naming no player's id
RejectGameRosters == {<< <<1, 2, 3>>, <<4, 5, 6>> >>,
                      << <<1, 1, 2>>, <<4, 5, 6>> >>,
                      << <<1, 2, 3>>, <<4, 5, 9>> >>}

\* bodies submitted to update_game: a score alone, and a score sent with a roster that
\* repeats an id or names no player's id
RejectGameUpdates == {GameUpdate(Some(15), None, None, None),
                      GameUpdate(Some(30), None, Some(<<1, 1, 2>>), None),
                      GameUpdate(None, Some(30), None, Some(<<4, 5, 9>>))}

\* rosters submitted with a new round, as for a game
RejectRoundRosters == {<< <<1, 2>>, <<3, 4>> >>,
                       << <<1, 1>>, <<3, 4>> >>,
                       << <<1, 2>>, <<3, 9>> >>}

\* bodies submitted to update_golf_round: holes alone, and course fields sent with a
\* roster that names no player's id or repeats an id
RejectRoundUpdates ==
    {GolfRoundUpdate(None, None, None, Some(Holes(8, 8))),
     [GolfRoundUpdate(Some(<<1, 9>>), None, Some(1), None) EXCEPT !.course = Some(<<"Links">>)],
     [GolfRoundUpdate(None, Some(<<3, 3>>), None, Some(Holes(6, 10))) EXCEPT !.course_id = Some(1)]}

RejectGameCreate ==
    \E r \in RejectGameRosters :
        nextGameId <= MaxRejectGames /\ create_game(r[1], r[2], 21, 15)

RejectGameUpdate ==
    \E g \in 1..MaxRejectGames, u \in RejectGameUpdates :
        update_game(g, u.team1_score, u.team2_score, u.team1_players, u.team2_players)

RejectRoundCreate ==
    \E r \in RejectRoundRosters :
        nextRoundId <= MaxRejectRounds
        /\ create_golf_round(r[1], r[2], Some(<<"Muni">>), None, None, Holes(10, 6))

RejectRoundUpdate ==
    \E id \in 1..MaxRejectRounds, u \in RejectRoundUpdates :
        update_golf_round(id, u.team1_players, u.team2_players,
                          u.course, u.course_id, u.tee_id, u.holes)

NextReject == RejectGameCreate \/ RejectGameUpdate \/ RejectRoundCreate \/ RejectRoundUpdate

SpecReject == Init /\ [][NextReject]_vars

(***************************************************************************)
(* Specification of the season-scoped reads over the Die game writes       *)
(***************************************************************************)
\* ids the games table may hand out in this specification
MaxSeasonGames == 3

\* the season query parameter: absent, 'all', and years with and without games
Seasons == {None, Some("all"), Some("2024"), Some("2025"), Some("2026")}

\* the players whose stats are requested; 9 is no player's id
SeasonReaders == {1, 4, 9}

SeasonCreate ==
    \E s \in {<<21, 15>>, <<15, 21>>} :
        nextGameId <= MaxSeasonGames /\ create_game(<<1, 2, 3>>, <<4, 5, 6>>, s[1], s[2])

SeasonDelete == \E g \in 1..MaxSeasonGames : delete_game(g)

SeasonRead == \E p \in SeasonReaders, s \in Seasons : get_player_stats(p, s)

NextSeason == SeasonCreate \/ SeasonDelete \/ SeasonRead

SpecSeason == Init /\ [][NextSeason]_vars

(***************************************************************************)
(* Specification of the team listing over a growing league                 *)
(***************************************************************************)
\* ids the games table may hand out in this specification: one more than the 30 games
\* up to which a tenth of the total stays within 3
MaxListedGames == 31

\* the season query parameter of the listing
ListingSeasons == {None, Some("2026")}

ListingCreate ==
    nextGameId <= MaxListedGames /\ create_game(<<1, 2, 3>>, <<4, 5, 6>>, 21, 15)

ListingRebuild == rebuild_all_teams

ListingRead == \E s \in ListingSeasons : list_teams(s)

NextListing == ListingCreate \/ ListingRebuild \/ ListingRead

SpecListing == Init /\ [][NextListing]_vars

(***************************************************************************)
(* Specification of the places that compute a win percentage               *)
(***************************************************************************)
\* ids the games and golf_rounds tables may hand out in this specification
MaxPercentGames == 3
MaxPercentRounds == 1

\* the season query parameter of the two season-scoped reads: a year without games and
\* a year with games
PercentSeasons == {Some("2024"), Some("2026")}

\* the players whose statistics are read: one who plays Die and golf, one who plays neither
PercentReaders == {1, 8}

PercentGameCreate ==
    nextGameId <= MaxPercentGames /\ create_game(<<1, 2, 3>>, <<4, 5, 6>>, 21, 15)

PercentGameDelete == \E g \in 1..MaxPercentGames : delete_game(g)

PercentRoundCreate ==
    nextRoundId <= MaxPercentRounds
        /\ create_golf_round(<<1, 2>>, <<3, 4>>, None, None, None, Holes(10, 6))

PercentRoundDelete == \E r \in 1..MaxPercentRounds : delete_golf_round(r)

PercentRebuild == rebuild_all_teams

PercentPlayerRead == \E p \in PercentReaders, s \in PercentSeasons : get_player_stats(p, s)

PercentTeamsRead == \E s \in PercentSeasons : list_teams(s)

PercentRivalryRead == get_rivalry_stats

NextPercent ==
    \/ PercentGameCreate \/ PercentGameDelete
    \/ PercentRoundCreate \/ PercentRoundDelete
    \/ PercentRebuild
    \/ PercentPlayerRead \/ PercentTeamsRead \/ PercentRivalryRead

SpecPercent == Init /\ [][NextPercent]_vars

(***************************************************************************)
(* Specification of requests that name a game or round by id               *)
(***************************************************************************)
\* ids the games and golf_rounds tables may hand out in this specification
MaxMissingGames == 2
MaxMissingRounds == 1

\* ids named by the requests: every id handed out and one that never is
MissingGameIds == 1..(MaxMissingGames + 1)
MissingRoundIds == 1..(MaxMissingRounds + 1)

\* bodies submitted to update_game: a score, and rosters with player 3 on both sides
MissingGameUpdates == {GameUpdate(Some(15), None, None, None),
                       GameUpdate(None, None, Some(<<1, 2, 3>>), Some(<<3, 4, 5>>))}

\* bodies submitted to update_golf_round: holes, and rosters with player 2 on both sides
MissingRoundUpdates == {GolfRoundUpdate(None, None, None, Some(Holes(8, 8))),
                        GolfRoundUpdate(Some(<<1, 2>>), Some(<<2, 3>>), None, None)}

MissingGameCreate ==
    nextGameId <= MaxMissingGames /\ create_game(<<1, 2, 3>>, <<4, 5, 6>>, 21, 15)

MissingGameGet == \E g \in MissingGameIds : get_game(g)

MissingGameUpdate ==
    \E g \in MissingGameIds, u \in MissingGameUpdates :
        update_game(g, u.team1_score, u.team2_score, u.team1_players, u.team2_players)

MissingGameDelete == \E g \in MissingGameIds : delete_game(g)

MissingRoundCreate ==
    nextRoundId <= MaxMissingRounds
        /\ create_golf_round(<<1, 2>>, <<3, 4>>, Some(<<"Muni">>), None, None, Holes(10, 6))

MissingRoundGet == \E r \in MissingRoundIds : get_golf_round(r)

MissingRoundUpdate ==
    \E r \in MissingRoundIds, u \in MissingRoundUpdates :
        update_golf_round(r, u.team1_players, u.team2_players,
                          u.course, u.course_id, u.tee_id, u.holes)

MissingRoundDelete == \E r \in MissingRoundIds : delete_golf_round(r)

NextMissing ==
    \/ MissingGameCreate \/ MissingGameGet \/ MissingGameUpdate \/ MissingGameDelete
    \/ MissingRoundCreate \/ MissingRoundGet \/ MissingRoundUpdate \/ MissingRoundDelete

SpecMissing == Init /\ [][NextMissing]_vars

(***************************************************************************)
(* Specification of the course cache                                       *)
(***************************************************************************)
\* requests sent upstream per external id, and round ids handed out, in this specification
MaxFetches == 3
MaxCourseRounds == 1

\* what upstream may do with a request for the id: fail, or answer with the course as it
\* is listed at the time (the listing of 202 is renamed at some point)
UpstreamAnswers(api_id) ==
    {UpstreamError}
        \cup (IF api_id = 303 THEN {}
              ELSE {UpstreamCourse(name, "North",
                                   << [tee_name |-> "White", holes |-> ApiHoles(4)] >>, <<>>) :
                       name \in {"Pine", "Pinehurst"}})

CourseGet ==
    \E api_id \in CourseApiIds :
        \E upstream \in UpstreamAnswers(api_id) :
            upstream_requests[api_id] < MaxFetches /\ get_course(api_id, upstream)

\* a round on a cached course and tee, named by their ids
CourseRoundCreate ==
    \E course_id \in DOMAIN golf_courses :
        /\ nextRoundId <= MaxCourseRounds
        /\ create_golf_round(<<1, 2>>, <<3, 4>>, None, Some(course_id),
                             Some(golf_courses[course_id].tees[1].id), Holes(10, 6))

NextCourse == CourseGet \/ CourseRoundCreate

SpecCourse == Init /\ [][NextCourse]_vars

(***************************************************************************)
(* Specification of player creation                                        *)
(***************************************************************************)
\* create_player requests that may be between their lookup and their commit at once
MaxCreating == 2

\* names submitted: the empty string, the name of player 1, the same in lower case, and
\* two names no player has at the start
PlayerNames == {<<>>, <<"Sean", "Nary">>, <<"sean", "nary">>,
                <<"Casey", "Newcomer">>, <<"Robin", "Newcomer">>}

PlayersCreate ==
    \E name \in PlayerNames : Len(creating) < MaxCreating /\ create_player(name)

PlayersCommit == \E i \in DOMAIN creating : create_player_commit(i)

NextPlayers == PlayersCreate \/ PlayersCommit

SpecPlayers == Init /\ [][NextPlayers]_vars

(***************************************************************************)
(* Specification of the per-game team update                               *)
(***************************************************************************)
\* ids the games table may hand out in this specification: enough for a trio to have a
\* Team row and play once more
MaxTeamUpdateGames == 4

\* games recorded: the trio 4,5,6 beats the trio 1,2,3, and the trio 1,2,3 beats 4,5,7
TeamUpdateGamesPlayed == {[team1_players |-> <<4, 5, 6>>, team2_players |-> <<3, 1, 2>>,
                           team1_score |-> 21, team2_score |-> 15],
                          [team1_players |-> <<1, 2, 3>>, team2_players |-> <<4, 5, 7>>,
                           team1_score |-> 21, team2_score |-> 18]}

\* the update sent for game 1: side 1's score lowered below side 2's
TeamUpdateScores == {GameUpdate(Some(10), None, None, None)}

TeamUpdateCreate ==
    \E g \in TeamUpdateGamesPlayed :
        nextGameId <= MaxTeamUpdateGames
        /\ create_game(g.team1_players, g.team2_players, g.team1_score, g.team2_score)

TeamUpdateScore ==
    \E u \in TeamUpdateScores :
        update_game(1, u.team1_score, u.team2_score, u.team1_players, u.team2_players)

TeamUpdateRebuild == rebuild_all_teams

TeamUpdateForGame == \E g \in 1..MaxTeamUpdateGames : update_teams_for_game(g)

NextTeamUpdate == TeamUpdateCreate \/ TeamUpdateScore \/ TeamUpdateRebuild \/ TeamUpdateForGame

SpecTeamUpdate == Init /\ [][NextTeamUpdate]_vars

(***************************************************************************)
(* Specification of the two listings                                       *)
(***************************************************************************)
\* ids the games table may hand out in this specification: the fourth game is played in
\* 2027, after the three games that give a trio its Team row
MaxBoardGames == 4

\* the season query parameter of the listings
BoardSeasons == {None, Some("all"), Some("2024"), Some("2026"), Some("2027")}

\* games recorded: the trio 1,2,3 against the trio 4,5,6 or against 4,5,7
BoardGamesPlayed == {<< <<1, 2, 3>>, <<4, 5, 6>> >>, << <<1, 2, 3>>, <<4, 5, 7>> >>}

BoardCreate ==
    \E g \in BoardGamesPlayed :
        nextGameId <= MaxBoardGames /\ create_game(g[1], g[2], 21, 15)

BoardRebuild == rebuild_all_teams

BoardPlayers == \E s \in BoardSeasons : get_leaderboard(s)

BoardTeams == \E s \in BoardSeasons : list_teams(s)

NextBoard == BoardCreate \/ BoardRebuild \/ BoardPlayers \/ BoardTeams

SpecBoard == Init /\ [][NextBoard]_vars

(***************************************************************************)
(* Specification of a long rivalry                                         *)
(***************************************************************************)
\* ids the games table may hand out in this specification: one more than the five games
\* the aggregate shows in detail
MaxRecentGames == 6

\* games recorded: Orchard beats three of Dreher, three of Dreher beat Orchard, and
\* Orchard plays a side with an outsider
RecentGamesPlayed == {[team1_players |-> <<1, 2, 3>>, team2_players |-> <<4, 5, 6>>,
                       team1_score |-> 21, team2_score |-> 15],
                      [team1_players |-> <<4, 6, 7>>, team2_players |-> <<3, 2, 1>>,
                       team1_score |-> 21, team2_score |-> 18],
                      [team1_players |-> <<1, 2, 3>>, team2_players |-> <<4, 5, 8>>,
                       team1_score |-> 21, team2_score |-> 12]}

RecentCreate ==
    \E g \in RecentGamesPlayed :
        nextGameId <= MaxRecentGames
        /\ create_game(g.team1_players, g.team2_players, g.team1_score, g.team2_score)

RecentRead == get_rivalry_stats

NextRecent == RecentCreate \/ RecentRead

SpecRecent == Init /\ [][NextRecent]_vars

(***************************************************************************)
(* What the store holds, read directly off the rows                        *)
(***************************************************************************)
\* sum of the second components of a finite set of <<key, number>> pairs
RECURSIVE SumOfPairs(_)
SumOfPairs(S) == IF S = {} THEN 0
                 ELSE LET x == CHOOSE y \in S : TRUE IN x[2] + SumOfPairs(S \ {x})

\* the positions <<parent id, index>> of the rows of a participation table
Positions(parts) == UNION {{<<id, i>> : i \in DOMAIN parts[id]} : id \in DOMAIN parts}

\* the seven cached Die columns of a player row
CachedDie(row) ==
    [games_played |-> row.games_played, games_won |-> row.games_won,
     total_points_scored |-> row.total_points_scored,
     total_points_against |-> row.total_points_against,
     win_percentage |-> row.win_percentage,
     avg_win_margin |-> row.avg_win_margin, avg_loss_margin |-> row.avg_loss_margin]

\* the Die aggregates of player p over the participation rows and games now stored
FullDie(p) ==
    LET rows == {x \in Positions(game_participations) :
                    game_participations[x[1]][x[2]].player_id = p}
        live == {x \in rows : x[1] \in DOMAIN games}
        side(x) == game_participations[x[1]][x[2]].team_number
        own(x) == IF side(x) = 1 THEN games[x[1]].team1_score ELSE games[x[1]].team2_score
        opp(x) == IF side(x) = 1 THEN games[x[1]].team2_score ELSE games[x[1]].team1_score
        wins == {x \in live : games[x[1]].winner_team = side(x)}
        losses == live \ wins
    IN  [games_played |-> Cardinality(rows),
         games_won |-> Cardinality(wins),
         total_points_scored |-> SumOfPairs({<<x, own(x)>> : x \in live}),
         total_points_against |-> SumOfPairs({<<x, opp(x)>> : x \in live}),
         win_percentage |-> IF rows = {} THEN <<0, 1>>
                            ELSE Ratio(100 * Cardinality(wins), Cardinality(rows)),
         avg_win_margin |-> IF wins = {} THEN <<0, 1>>
                            ELSE Ratio(SumOfPairs({<<x, own(x) - opp(x)>> : x \in wins}),
                                       Cardinality(wins)),
         avg_loss_margin |-> IF losses = {} THEN <<0, 1>>
                             ELSE Ratio(SumOfPairs({<<x, opp(x) - own(x)>> : x \in losses}),
                                        Cardinality(losses))]

\* the seven cached golf columns of a player row
CachedGolf(row) ==
    [golf_rounds_played |-> row.golf_rounds_played, golf_rounds_won |-> row.golf_rounds_won,
     golf_rounds_lost |-> row.golf_rounds_lost, golf_rounds_drawn |-> row.golf_rounds_drawn,
     golf_holes_won |-> row.golf_holes_won, golf_holes_lost |-> row.golf_holes_lost,
     golf_win_percentage |-> row.golf_win_percentage]

\* the golf aggregates of player p over the participation rows and rounds now stored
FullGolf(p) ==
    LET rows == {x \in Positions(golf_round_participations) :
                    golf_round_participations[x[1]][x[2]].player_id = p}
        live == {x \in rows : x[1] \in DOMAIN golf_rounds}
        side(x) == golf_round_participations[x[1]][x[2]].team_number
        own(x) == IF side(x) = 1 THEN golf_rounds[x[1]].team1_holes_won
                  ELSE golf_rounds[x[1]].team2_holes_won
        opp(x) == IF side(x) = 1 THEN golf_rounds[x[1]].team2_holes_won
                  ELSE golf_rounds[x[1]].team1_holes_won
        drawn == {x \in live : golf_rounds[x[1]].winner_team = None}
        won == {x \in live : golf_rounds[x[1]].winner_team = Some(side(x))}
    IN  [golf_rounds_played |-> Cardinality(rows),
         golf_rounds_won |-> Cardinality(won),
         golf_rounds_lost |-> Cardinality(live \ (won \cup drawn)),
         golf_rounds_drawn |-> Cardinality(drawn),
         golf_holes_won |-> SumOfPairs({<<x, own(x)>> : x \in live}),
         golf_holes_lost |-> SumOfPairs({<<x, opp(x)>> : x \in live}),
         golf_win_percentage |-> IF rows = {} THEN <<0, 1>>
                                 ELSE Ratio(100 * Cardinality(won), Cardinality(rows))]

\* the players of the rows of a parent that carry the side marker
SidePlayers(parts, id, team_number) ==
    {parts[x[1]][x[2]].player_id :
        x \in {y \in Positions(parts) : y[1] = id /\ parts[y[1]][y[2]].team_number = team_number}}

\* the number of rows of a parent that carry the side marker
SideCount(parts, id, team_number) ==
    Cardinality({y \in Positions(parts) : y[1] = id /\ parts[y[1]][y[2]].team_number = team_number})

\* the stored games in which the three players of T are the whole of one side
SharedGames(T) ==
    {g \in DOMAIN games :
        \E n \in {1, 2} : SideCount(game_participations, g, n) = 3
                          /\ SidePlayers(game_participations, g, n) = T}

Trios == {T \in SUBSET DOMAIN players : Cardinality(T) = 3}
TrioOf(row) == {row.player1_id, row.player2_id, row.player3_id}
RowsFor(tm, T) == {i \in DOMAIN tm : TrioOf(tm[i]) = T}

(***************************************************************************)
(* C1  Cached Die aggregates equal the full recompute                      *)
(***************************************************************************)
\* C1: after any sequence of completed create_game, update_game and delete_game calls,
\* every player's seven cached Die fields equal the values recomputed from the player's
\* current participation rows and their parent games.
C1_CachedDieEqualsRecompute ==
    \A p \in DOMAIN players : CachedDie(players[p]) = FullDie(p)

\* a game updated to a single side is stored next to another game, a player dropped by
\* the update is back to one game and another has a win and a loss behind them
C1_Witness ==
    /\ \E g \in DOMAIN games : SideCount(game_participations, g, 2) = 0
    /\ \E p \in DOMAIN players :
          players[p].games_played = 2 /\ players[p].games_won = 1
          /\ players[p].avg_loss_margin # Zero
    /\ \E p \in DOMAIN players : players[p].games_played = 1 /\ Cardinality(DOMAIN games) = 2

(***************************************************************************)
(* C2  Cached golf aggregates equal the full recompute                     *)
(***************************************************************************)
\* C2: after any sequence of completed create_golf_round, update_golf_round and
\* delete_golf_round calls, every player's seven cached golf fields equal the values
\* recomputed from the player's current round participations, also for players an
\* update removed from a round.
C2_CachedGolfEqualsRecompute ==
    \A p \in DOMAIN players : CachedGolf(players[p]) = FullGolf(p)

\* players 3 and 4 were moved out of a stored round by an update (players 5 and 6 only
\* enter through that update) and are back to no rounds, while a drawn round is counted
C2_Witness ==
    /\ \E r \in DOMAIN golf_rounds :
          SidePlayers(golf_round_participations, r, 1) = {5, 6}
    /\ players[3].golf_rounds_played = 0 /\ players[4].golf_rounds_played = 0
    /\ \E p \in DOMAIN players : players[p].golf_rounds_drawn = 1 /\ players[p].golf_rounds_won = 1

(***************************************************************************)
(* C3  3v3 and 2v2 rosters                                                 *)
(***************************************************************************)
\* C3: every stored game has exactly three participations per side, every stored golf
\* round exactly two per side, and no player appears twice in a game or round.
C3_FullRosters ==
    /\ \A g \in DOMAIN games :
          /\ SideCount(game_participations, g, 1) = 3
          /\ SideCount(game_participations, g, 2) = 3
          /\ Cardinality(SidePlayers(game_participations, g, 1)
                         \cup SidePlayers(game_participations, g, 2)) = 6
    /\ \A r \in DOMAIN golf_rounds :
          /\ SideCount(golf_round_participations, r, 1) = 2
          /\ SideCount(golf_round_participations, r, 2) = 2
          /\ Cardinality(SidePlayers(golf_round_participations, r, 1)
                         \cup SidePlayers(golf_round_participations, r, 2)) = 4

(***************************************************************************)
(* C4  Team rows only for trios with three shared games                    *)
(***************************************************************************)
\* C4: after any sequence of game writes and team rebuilds a Team row exists only for a
\* trio that currently has at least 3 games with all three on the same side.
C4_TeamRowsOnlyForQualifyingTrios ==
    \A i \in DOMAIN teams : Cardinality(SharedGames(TrioOf(teams[i]))) >= 3

(***************************************************************************)
(* C5  The third shared game makes the team appear                         *)
(***************************************************************************)
\* C5: a trio with exactly 2 shared same-side games has no Team row, and once
\* create_game has recorded the trio's 3rd shared same-side game a Team row for the
\* trio exists with games_played = 3.
C5_ThirdGameCreatesTeam ==
    [][/\ \A T \in Trios : Cardinality(SharedGames(T)) = 2 => RowsFor(teams, T) = {}
       /\ nextGameId' = nextGameId + 1 =>
             \A T \in Trios :
                Cardinality(SharedGames(T)) = 2 /\ Cardinality(SharedGames(T)') = 3
                   => \E i \in RowsFor(teams', T) : teams'[i].games_played = 3]_vars

(***************************************************************************)
(* C6  Rivalry classification                                              *)
(***************************************************************************)
NameSet(game_id, team_number) ==
    {players[p].name : p \in SidePlayers(game_participations, game_id, team_number)}

\* one side is exactly Roster A and the other exactly Roster B
ExactRosters(g) ==
    \E n \in {1, 2} : /\ NameSet(g, n) = Range(ORCHARD_PLAYERS)
                      /\ NameSet(g, 3 - n) = Range(DREHER_PLAYERS)

\* one side is exactly Roster A and the other is three players of Roster B
OrchardAgainstThreeOfDreher(g) ==
    \E n \in {1, 2} : /\ NameSet(g, n) = Range(ORCHARD_PLAYERS)
                      /\ SideCount(game_participations, g, n) = 3
                      /\ NameSet(g, 3 - n) \subseteq Range(DREHER_PLAYERS)
                      /\ SideCount(game_participations, g, 3 - n) = 3

\* C6 as stated: a game is classified a rivalry game only if one side's name set equals
\* Roster A and the other side's equals Roster B, and only such games count toward the
\* totals get_rivalry_games returns.
C6_ExactRosterMatch ==
    /\ \A g \in DOMAIN games :
          ~IsNone(is_rivalry_game(players, games, game_participations, g)) => ExactRosters(g)
    /\ ~IsNone(response.body) =>
          Get(response.body).total_games <= Cardinality({g \in DOMAIN games : ExactRosters(g)})

\* C6 amended: a game is classified a rivalry game only if one side's name set equals
\* Roster A and the other side is three players all listed in Roster B (which lists four
\* names); the total get_rivalry_games returns is the number of such games, so a game
\* with Roster A on one side and a player outside Roster B on the other does not count.
C6_OrchardAgainstDreherMembers ==
    /\ \A g \in DOMAIN games :
          ~IsNone(is_rivalry_game(players, games, game_participations, g))
              => OrchardAgainstThreeOfDreher(g)
    /\ ~IsNone(response.body) =>
          Get(response.body).total_games
              = Cardinality({g \in DOMAIN games : OrchardAgainstThreeOfDreher(g)})

\* the totals were read while a counted game and a game of Roster A against a side with
\* an outsider were both stored
C6_Witness ==
    /\ ~IsNone(response.body)
    /\ Get(response.body).total_games = 1
    /\ \E g \in DOMAIN games : NameSet(g, 1) = Range(ORCHARD_PLAYERS) /\ Outsider \in NameSet(g, 2)
    /\ Cardinality(DOMAIN games) = 2

(***************************************************************************)
(* C7  create_or_update_team with fewer than 3 game ids                    *)
(***************************************************************************)
\* lists of fewer than 3 ids of stored games
ShortGameLists ==
    LET all == Ascending(DOMAIN games)
    IN  {SubSeq(all, 1, n) : n \in {k \in 0..2 : k <= Len(all)}}

\* C7: create_or_update_team called with fewer than 3 game ids returns null, and no Team
\* row for the trio is left when it returns.
C7_ShortListDeletesRow ==
    \A T \in Trios, game_ids \in ShortGameLists :
        LET r == create_or_update_team(teams, players, games, game_participations,
                                       Ascending(T), game_ids)
        IN  IsNone(r.team) /\ RowsFor(r.teams, T) = {}

(***************************************************************************)
(* C8  rebuild_all_teams                                                   *)
(***************************************************************************)
\* one row for each trio with at least 3 shared games and none for any other, each row
\* with its ids ascending and games_played the number of the trio's shared games
ExactTeams ==
    /\ \A T \in Trios :
          Cardinality(RowsFor(teams, T)) = IF Cardinality(SharedGames(T)) >= 3 THEN 1 ELSE 0
    /\ \A i \in DOMAIN teams :
          /\ teams[i].player1_id < teams[i].player2_id
          /\ teams[i].player2_id < teams[i].player3_id
          /\ teams[i].games_played = Cardinality(SharedGames(TrioOf(teams[i])))

\* C8: when rebuild_all_teams completes, the Team rows are exactly the sorted trios that
\* are a complete side in at least 3 games, one row each, games_played the number of
\* such games; rows of trios with fewer such games are gone.
C8_RebuildExact == [][rebuild_all_teams => ExactTeams']_vars

\* a rebuilt table: the trio 1,2,3 has its row with three games while the trio 4,5,6,
\* with two shared games, has none
C8_Witness ==
    /\ ExactTeams
    /\ \E i \in DOMAIN teams : teams[i].games_played = 3 /\ TrioOf(teams[i]) = {1, 2, 3}
    /\ \E T \in Trios : Cardinality(SharedGames(T)) = 2 /\ RowsFor(teams, T) = {}

(***************************************************************************)
(* C9  The player recompute is idempotent                                  *)
(***************************************************************************)
\* a player row whose cached Die columns hold other values
Stale(row) ==
    [row EXCEPT !.games_played = @ + 1, !.games_won = @ + 2,
                !.total_points_scored = @ + 21, !.total_points_against = 0,
                !.win_percentage = <<1, 3>>, !.avg_win_margin = <<7, 2>>,
                !.avg_loss_margin = <<5, 1>>]

Recomputed(pl, p) == _update_single_player_stats(pl, games, game_participations, p)

\* C9: in every reachable store state and for every player, running the recompute twice
\* in a row gives the same cached values as running it once, and the result is the same
\* whatever values were cached before.
C9_RecomputeIdempotent ==
    \A p \in DOMAIN players :
        /\ Recomputed(Recomputed(players, p), p) = Recomputed(players, p)
        /\ Recomputed([players EXCEPT ![p] = Stale(@)], p) = Recomputed(players, p)

\* a player whose recompute folds two games, one won by a margin and one lost
C9_Witness ==
    \E p \in DOMAIN players :
        LET t == DieTally(games, game_participations, p)
        IN  Len(t.win_margins) = 1 /\ Len(t.loss_margins) = 1
            /\ t.win_margins # <<0>> /\ Recomputed(players, p)[p].games_played = 2

(***************************************************************************)
(* C10  Every counted participation has exactly one outcome                *)
(***************************************************************************)
\* C10: for Die, games_played equals games_won plus the number of games the recompute
\* counts as losses; for golf, golf_rounds_played equals golf_rounds_won +
\* golf_rounds_lost + golf_rounds_drawn; in every state reached by completed writes.
C10_OutcomesPartitionPlayed ==
    \A p \in DOMAIN players :
        /\ players[p].games_played
              = players[p].games_won + Len(DieTally(games, game_participations, p).loss_margins)
        /\ players[p].golf_rounds_played
              = players[p].golf_rounds_won + players[p].golf_rounds_lost
                + players[p].golf_rounds_drawn

\* a player with a Die win and a Die loss by a tie, and a player with a drawn round
C10_Witness ==
    /\ \E p \in DOMAIN players :
          /\ players[p].games_played = 2 /\ players[p].games_won = 1
          /\ \E g \in DOMAIN games : games[g].team1_score = games[g].team2_score
    /\ \E p \in DOMAIN players :
          players[p].golf_rounds_drawn = 1 /\ players[p].golf_rounds_played = 1

(***************************************************************************)
(* C11  The winner flag follows the current scores                         *)
(***************************************************************************)
\* C11: for every stored game, after any sequence of create_game and update_game calls,
\* winner_team is 1 exactly when team1_score > team2_score and 2 otherwise.
C11_WinnerRederived ==
    \A g \in DOMAIN games :
        games[g].winner_team = IF games[g].team1_score > games[g].team2_score THEN 1 ELSE 2

\* a game created 21-15 or 21-21 whose team1_score alone was updated to 15: the scores
\* 15-15 and 15-21 with a side-1 roster of 4,5,6 arise only through updates
C11_Witness ==
    /\ \E g \in DOMAIN games :
          games[g].team1_score = 15 /\ games[g].team2_score = 15 /\ games[g].winner_team = 2
    /\ \E g \in DOMAIN games :
          games[g].team1_score = 21 /\ games[g].winner_team = 1
          /\ SidePlayers(game_participations, g, 1) = {4, 5, 6}

(***************************************************************************)
(* C12  A rejected write leaves the store as it was                        *)
(***************************************************************************)
\* C12: a create or update request of a game or round that names an unknown player id
\* or repeats a player id is answered with a client error, and the stored games, rounds,
\* participations, hole results and cached aggregates are the same after it as before.
C12_RejectionChangesNothing ==
    [][response'.status \in {400, 422} =>
          UNCHANGED <<players, games, game_participations, nextGameId, teams,
                      golf_rounds, golf_round_participations, golf_hole_results,
                      nextRoundId>>]_vars

\* a request was rejected with 400 while every id had been handed out, so the request was
\* an update of a stored game or round, sent with a score or course fields
C12_Witness ==
    /\ response.status = 400
    /\ nextGameId = MaxRejectGames + 1 /\ nextRoundId = MaxRejectRounds + 1
    /\ \E p \in DOMAIN players : players[p].games_played = 2 /\ players[p].golf_rounds_played = 2

(***************************************************************************)
(* C13  Deleting a game or round touches exactly its participants          *)
(***************************************************************************)
\* the score of the side a participant of game g played on, and of the other side
OwnScore(g, p) ==
    IF p \in SidePlayers(game_participations, g, 1) THEN games[g].team1_score
    ELSE games[g].team2_score

OtherScore(g, p) ==
    IF p \in SidePlayers(game_participations, g, 1) THEN games[g].team2_score
    ELSE games[g].team1_score

\* the step removes game g: its participants lose one game and its points, their Die
\* fields are the recompute over the rows that remain, and nothing else of any player moves
DieDeleteFrame(g) ==
    \A p \in DOMAIN players :
        IF p \in SidePlayers(game_participations, g, 1) \cup SidePlayers(game_participations, g, 2)
        THEN /\ players'[p].games_played = players[p].games_played - 1
             /\ players'[p].total_points_scored = players[p].total_points_scored - OwnScore(g, p)
             /\ players'[p].total_points_against = players[p].total_points_against - OtherScore(g, p)
             /\ players'[p].games_won = players[p].games_won
                    - (IF p \in SidePlayers(game_participations, g, games[g].winner_team)
                       THEN 1 ELSE 0)
             /\ CachedDie(players'[p]) = FullDie(p)'
             /\ CachedGolf(players'[p]) = CachedGolf(players[p])
        ELSE players'[p] = players[p]

\* the same for a removed golf round r
GolfDeleteFrame(r) ==
    \A p \in DOMAIN players :
        IF p \in SidePlayers(golf_round_participations, r, 1)
                 \cup SidePlayers(golf_round_participations, r, 2)
        THEN LET side == IF p \in SidePlayers(golf_round_participations, r, 1) THEN 1 ELSE 2
                 own == IF side = 1 THEN golf_rounds[r].team1_holes_won
                        ELSE golf_rounds[r].team2_holes_won
                 other == IF side = 1 THEN golf_rounds[r].team2_holes_won
                          ELSE golf_rounds[r].team1_holes_won
             IN  /\ players'[p].golf_rounds_played = players[p].golf_rounds_played - 1
                 /\ players'[p].golf_holes_won = players[p].golf_holes_won - own
                 /\ players'[p].golf_holes_lost = players[p].golf_holes_lost - other
                 /\ CachedGolf(players'[p]) = FullGolf(p)'
                 /\ CachedDie(players'[p]) = CachedDie(players[p])
        ELSE players'[p] = players[p]

\* C13: deleting a game changes the cached aggregates of exactly its participants, each
\* losing one game played and the deleted game's points and margin sample, while every
\* other player's cached fields are unchanged; likewise for a deleted golf round.
C13_DeleteTouchesParticipantsOnly ==
    [][/\ \A g \in DOMAIN games \ DOMAIN games' : DieDeleteFrame(g)
       /\ \A r \in DOMAIN golf_rounds \ DOMAIN golf_rounds' : GolfDeleteFrame(r)]_vars

\* game 1 was deleted while game 2 stays stored with a participant who played both, and
\* the only round was deleted
C13_Witness ==
    /\ nextGameId = 3 /\ DOMAIN games = {2}
    /\ \E p \in DOMAIN players : players[p].games_played = 1
    /\ \E p \in DOMAIN players : players[p].games_played = 0
    /\ nextRoundId = 2 /\ DOMAIN golf_rounds = {}

(***************************************************************************)
(* C14  Season-scoped player statistics                                    *)
(***************************************************************************)
\* the participation rows of player p whose game is stored and was played in year yr
RowsInYear(p, yr) ==
    {x \in Positions(game_participations) :
        /\ game_participations[x[1]][x[2]].player_id = p
        /\ x[1] \in DOMAIN games
        /\ year(games[x[1]].played_at) = yr}

\* the year a season string names
YearNamed == [s \in {"2024", "2025", "2026"} |-> CASE s = "2024" -> 2024
                                                   [] s = "2025" -> 2025
                                                   [] s = "2026" -> 2026]

\* what a reply to a stats request for player p and the season must carry
SeasonReplyExact(p, season) ==
    LET stats == Get(response'.body).stats
    IN  IF IsNone(season) \/ season = Some("all")
        THEN stats = FullDie(p)
        ELSE LET rows == RowsInYear(p, YearNamed[Get(season)])
                 won == {x \in rows : games[x[1]].winner_team
                                         = game_participations[x[1]][x[2]].team_number}
                 own(x) == IF game_participations[x[1]][x[2]].team_number = 1
                           THEN games[x[1]].team1_score ELSE games[x[1]].team2_score
             IN  /\ stats.games_played = Cardinality(rows)
                 /\ stats.games_won = Cardinality(won)
                 /\ stats.total_points_scored = SumOfPairs({<<x, own(x)>> : x \in rows})

\* C14: for a year season the player's statistics are computed only from the
\* participations whose game was played in that year, whatever the cached all-time
\* values; with season absent or 'all' no game is left out; computing them leaves every
\* stored row and cached field unchanged.
C14_SeasonStatsFromThatYear ==
    [][\A p \in DOMAIN players, season \in Seasons :
          get_player_stats(p, season) =>
             /\ SeasonReplyExact(p, season)
             /\ UNCHANGED <<players, games, game_participations, teams>>]_vars

\* player 1 has a game in 2025 and one in 2026; the reply to a season request counts one
\* game while the cached all-time count is two
C14_Witness ==
    /\ ~IsNone(response.body)
    /\ Get(response.body).id = 1
    /\ Get(response.body).stats.games_played = 1
    /\ players[1].games_played = 2
    /\ \E g, h \in DOMAIN games : year(games[g].played_at) = 2025 /\ year(games[h].played_at) = 2026

(***************************************************************************)
(* C15  A round's counts are those of its hole results                     *)
(***************************************************************************)
\* the number of stored hole results of round r with the given winner
HoleCount(r, w) ==
    Cardinality({i \in DOMAIN RowsOf(golf_hole_results, r) : golf_hole_results[r][i].winner_team = w})

\* C15: every stored round's team1_holes_won, team2_holes_won and halved_holes are the
\* numbers of its current hole results won by side 1, by side 2 and halved, 18 in all,
\* and winner_team is the side with strictly more holes, or null when the counts are
\* equal; after create_golf_round and after any update_golf_round.
C15_RoundCountsFromHoles ==
    \A r \in DOMAIN golf_rounds :
        /\ Len(RowsOf(golf_hole_results, r)) = 18
        /\ {golf_hole_results[r][i].hole_number : i \in DOMAIN RowsOf(golf_hole_results, r)} = 1..18
        /\ golf_rounds[r].team1_holes_won = HoleCount(r, Some(1))
        /\ golf_rounds[r].team2_holes_won = HoleCount(r, Some(2))
        /\ golf_rounds[r].halved_holes = HoleCount(r, None)
        /\ golf_rounds[r].team1_holes_won + golf_rounds[r].team2_holes_won
              + golf_rounds[r].halved_holes = 18
        /\ golf_rounds[r].winner_team =
              IF HoleCount(r, Some(1)) > HoleCount(r, Some(2)) THEN Some(1)
              ELSE IF HoleCount(r, Some(2)) > HoleCount(r, Some(1)) THEN Some(2)
              ELSE None

\* one round had its holes replaced by a 6-10 set and its roster replaced by side 1 alone
\* (players 3 and 4), next to a round drawn 8-8 with two holes halved
C15_Witness ==
    /\ \E r \in DOMAIN golf_rounds :
          /\ SidePlayers(golf_round_participations, r, 1) = {3, 4}
          /\ SidePlayers(golf_round_participations, r, 2) = {}
          /\ golf_rounds[r].team2_holes_won = 10
    /\ \E r \in DOMAIN golf_rounds :
          golf_rounds[r].winner_team = None /\ golf_rounds[r].halved_holes = 2

(***************************************************************************)
(* C16  The all-time team listing                                          *)
(***************************************************************************)
\* the least number of games that is at least 3 and at least a tenth of n
Bar(n) == CHOOSE m \in 3..(n + 3) : 10 * m >= n /\ (m = 3 \/ 10 * (m - 1) < n)

\* C16: the all-time team listing returns exactly the Team rows whose cached
\* games_played is at least max(3, ceil(0.1 x number of games stored)), the bar being
\* taken from the game count at the time of the call.
C16_ListingThreshold ==
    [][\A season \in {None, Some("all")} :
          list_teams(season) =>
             LET body == Get(response'.body)
             IN  /\ Range(body.teams)
                       = {teams[i] : i \in {j \in DOMAIN teams :
                                               teams[j].games_played >= Bar(Cardinality(DOMAIN games))}}
                 /\ Len(body.teams)
                       = Cardinality({j \in DOMAIN teams :
                                         teams[j].games_played >= Bar(Cardinality(DOMAIN games))})
                 /\ body.min_games_required = Bar(Cardinality(DOMAIN games))]_vars

\* with 31 games stored the bar is 4: a listing was served that leaves out the rows of
\* teams whose cached games_played is still 3, as rebuilt when 3 games were stored
C16_Witness ==
    /\ Cardinality(DOMAIN games) = 31
    /\ ~IsNone(response.body)
    /\ Get(response.body).min_games_required = 4
    /\ Get(response.body).teams = <<>>
    /\ \E i \in DOMAIN teams : teams[i].games_played = 3

(***************************************************************************)
(* C17  No win percentage over an empty record                             *)
(***************************************************************************)
\* C17: win_percentage is 0.0 whenever the played count is 0, in the cached Die columns,
\* the cached golf columns, the season-scoped player statistics, the season-scoped team
\* statistics and the rivalry aggregate.
C17_ZeroPlayedZeroPercentage ==
    /\ \A p \in DOMAIN players :
          /\ players[p].games_played = 0 => players[p].win_percentage = Zero
          /\ players[p].golf_rounds_played = 0 => players[p].golf_win_percentage = Zero
          /\ \A s \in PercentSeasons :
                LET stats == _compute_player_season_stats(games, game_participations, p, s)
                IN  stats.games_played = 0 => stats.win_percentage = Zero
    /\ \A i \in DOMAIN teams, s \in PercentSeasons :
          LET stats == _compute_team_season_stats(teams[i], games, game_participations, s)
          IN  stats.games_played = 0 => stats.win_percentage = Zero
    /\ LET rivalry == get_rivalry_games(players, games, game_participations)
       IN  rivalry.total_games = 0
              => rivalry.orchard_win_percentage = Zero /\ rivalry.dreher_win_percentage = Zero

\* every game and the round were deleted again after the teams were rebuilt: player 1's
\* cached Die and golf columns were recomputed over nothing, the Team rows have no game
\* in any season, and the rivalry aggregate was served over no game
C17_Witness ==
    /\ nextGameId > MaxPercentGames /\ games = <<>>
    /\ nextRoundId > 1 /\ golf_rounds = <<>>
    /\ players[1].games_played = 0 /\ players[1].golf_rounds_played = 0
    /\ teams # <<>>
    /\ response = [status |-> 200,
                   body |-> Some(get_rivalry_games(players, games, game_participations))]

(***************************************************************************)
(* C18  Requests naming an id that is not stored                           *)
(***************************************************************************)
\* the request is a get, an update with one of the given bodies, or a delete of game g
UpdateGameWith(g, bodies) ==
    \E u \in bodies :
       update_game(g, u.team1_score, u.team2_score, u.team1_players, u.team2_players)

OnGame(g, bodies) == get_game(g) \/ delete_game(g) \/ UpdateGameWith(g, bodies)

\* the same for round r
UpdateRoundWith(r, bodies) ==
    \E u \in bodies :
       update_golf_round(r, u.team1_players, u.team2_players,
                         u.course, u.course_id, u.tee_id, u.holes)

OnRound(r, bodies) == get_golf_round(r) \/ delete_golf_round(r) \/ UpdateRoundWith(r, bodies)

\* the bodies that pass the validators of their schema
WellFormed(bodies) ==
    {u \in bodies : validate_unique_players(u.team1_players, u.team2_players)}

NotFoundAndUnchanged ==
    /\ response'.status = 404
    /\ UNCHANGED <<players, dieVars, teams, golfVars, courseVars>>

\* C18 as stated: get, update and delete on a game or golf-round id that does not exist
\* return a not-found error and leave all stored rows and cached aggregates unchanged,
\* whatever the body of the update.
C18_MissingIdIsNotFound ==
    [][/\ \A g \in MissingGameIds :
             g \notin DOMAIN games /\ OnGame(g, MissingGameUpdates) => NotFoundAndUnchanged
       /\ \A r \in MissingRoundIds :
             r \notin DOMAIN golf_rounds /\ OnRound(r, MissingRoundUpdates) => NotFoundAndUnchanged]_vars

\* C18: get, delete, and update with a body that passes the validators of its schema, on
\* a game or golf-round id that does not exist return 404 and leave all stored rows and
\* cached aggregates unchanged; an update whose body fails the validators is answered
\* 422 whether the id exists or not, and also changes nothing.
C18_MissingIdWellFormedBody ==
    [][/\ \A g \in MissingGameIds :
             g \notin DOMAIN games =>
                /\ OnGame(g, WellFormed(MissingGameUpdates)) => NotFoundAndUnchanged
                /\ UpdateGameWith(g, MissingGameUpdates \ WellFormed(MissingGameUpdates))
                      => response'.status = 422
                         /\ UNCHANGED <<players, dieVars, teams, golfVars, courseVars>>
       /\ \A r \in MissingRoundIds :
             r \notin DOMAIN golf_rounds =>
                /\ OnRound(r, WellFormed(MissingRoundUpdates)) => NotFoundAndUnchanged
                /\ UpdateRoundWith(r, MissingRoundUpdates \ WellFormed(MissingRoundUpdates))
                      => response'.status = 422
                         /\ UNCHANGED <<players, dieVars, teams, golfVars, courseVars>>]_vars

\* a request was answered 404 while a game and a round are stored and another game was
\* deleted, so the id it named was a deleted or never-issued one
C18_Witness ==
    /\ response.status = 404
    /\ DOMAIN games = {2}
    /\ DOMAIN golf_rounds = {1}
    /\ players[1].games_played = 1 /\ players[1].golf_rounds_played = 1

(***************************************************************************)
(* C19  The course cache                                                   *)
(***************************************************************************)
\* the ids of the golf_courses rows stored for an external id
StoredFor(courses, api_id) == {id \in DOMAIN courses : courses[id].api_id = api_id}

\* C19: get_or_cache_course is a read-through cache keyed by external id: a call for an
\* id with a stored row returns that row, stores nothing and sends no request upstream;
\* a call for an id without a stored row sends one request upstream, and stores one row
\* for the id if the request succeeds and no row if it fails, so that the next call for
\* the id asks upstream again.
C19_ReadThroughCache ==
    [][\A api_id \in CourseApiIds :
          \A upstream \in UpstreamAnswers(api_id) :
             get_course(api_id, upstream) =>
                LET stored == StoredFor(golf_courses, api_id)
                    after == StoredFor(golf_courses', api_id)
                IN  IF stored # {}
                    THEN /\ upstream_requests' = upstream_requests
                         /\ golf_courses' = golf_courses
                         /\ response'.status = 200
                         /\ \E id \in stored :
                               /\ Get(response'.body).id = id
                               /\ Get(response'.body).api_id = api_id
                               /\ Get(response'.body).club_name = golf_courses[id].club_name
                               /\ Get(response'.body).course_name = golf_courses[id].course_name
                    ELSE /\ upstream_requests' =
                               [upstream_requests EXCEPT ![api_id] = upstream_requests[api_id] + 1]
                         /\ IF upstream.ok
                            THEN Cardinality(after) = 1 /\ response'.status = 200
                            ELSE after = {} /\ golf_courses' = golf_courses
                                 /\ response'.status = 502]_vars

\* course 202 was asked for upstream twice and is stored, so its first fetch failed and
\* the second stored it; course 303 was asked for upstream three times and has no row;
\* course 101, stored from the start, was never asked for upstream; a call was answered
\* with the stored row of 202
C19_Witness ==
    /\ upstream_requests[202] = 2 /\ StoredFor(golf_courses, 202) # {}
    /\ upstream_requests[303] = 3 /\ StoredFor(golf_courses, 303) = {}
    /\ upstream_requests[101] = 0
    /\ response.status = 200 /\ ~IsNone(response.body) /\ Get(response.body).api_id = 202

(***************************************************************************)
(* C20  Player names are unique                                            *)
(***************************************************************************)
\* C20: no two stored players ever share a name; a create_player request whose name is
\* that of a player stored when the handler looks the name up is rejected with 400 and
\* the set of players is unchanged.
C20_UniqueNames ==
    [][/\ \A p, q \in DOMAIN players' : players'[p].name = players'[q].name => p = q
       /\ \A name \in PlayerNames :
             (\E p \in DOMAIN players : players[p].name = name) /\ create_player(name)
                => response'.status = 400 /\ players' = players /\ creating' = creating]_vars

\* three players were added, a request with the name of one of them was answered 400,
\* and a request for the lower-case spelling of player 1's name was stored as a player
C20_Witness ==
    /\ Cardinality(DOMAIN players) = Len(InitialNames) + 3
    /\ \E p \in DOMAIN players : players[p].name = <<"sean", "nary">>
    /\ response.status = 400

(***************************************************************************)
(* C21  Team rows after update_game                                        *)
(***************************************************************************)
\* the trio is the whole of one side of game g in the given participation table
SideOf(parts, g, T) ==
    \E n \in {1, 2} : SideCount(parts, g, n) = 3 /\ SidePlayers(parts, g, n) = T

\* the games of S that the trio's side won, the trio being the whole of that side
WonBy(S, T) ==
    {g \in S : \E n \in {1, 2} : /\ SidePlayers(game_participations, g, n) = T
                                 /\ SideCount(game_participations, g, n) = 3
                                 /\ games[g].winner_team = n}

\* C21: after update_game changes a game's scores or rosters, every Team row whose
\* triple played as a side in that game (before or after the update) has cached
\* games_played and games_won equal to the recompute over the triple's current shared
\* same-side games, without a separate rebuild call.
C21_UpdateGameRefreshesTeams ==
    [][\A g \in DOMAIN games :
          \A u \in TeamUpdates :
             update_game(g, u.team1_score, u.team2_score, u.team1_players, u.team2_players)
             /\ response'.status = 200
                => \A T \in Trios :
                      SideOf(game_participations, g, T) \/ SideOf(game_participations', g, T)
                         => \A i \in RowsFor(teams', T) :
                               /\ teams'[i].games_played = Cardinality(SharedGames(T)')
                               /\ teams'[i].games_won = Cardinality(WonBy(SharedGames(T), T)')]_vars

(***************************************************************************)
(* C22  update_teams_for_game touches the game's two triples only          *)
(***************************************************************************)
\* C22: update_teams_for_game(game) creates or modifies Team rows only for the at most
\* two sorted player triples formed by that game's two 3-player sides; every Team row
\* for any other triple is left unchanged.
C22_UpdateForGameFrame ==
    [][\A g \in DOMAIN games :
          update_teams_for_game(g) =>
             LET touched == {T \in Trios : SideOf(game_participations, g, T)}
             IN  /\ Cardinality(touched) <= 2
                 /\ Len(teams') >= Len(teams)
                 /\ \A i \in DOMAIN teams : TrioOf(teams[i]) \notin touched => teams'[i] = teams[i]
                 /\ \A i \in DOMAIN teams' \ DOMAIN teams : TrioOf(teams'[i]) \in touched]_vars

\* the row of trio 1,2,3 holds its four games and its current wins, as written by the
\* update for the fourth game, while the row of trio 4,5,6, which did not play in that
\* game, still holds the three wins of the rebuild although game 1 now counts as lost
C22_Witness ==
    /\ \E i \in DOMAIN teams :
          /\ TrioOf(teams[i]) = {1, 2, 3}
          /\ teams[i].games_played = 4
          /\ teams[i].games_won = Cardinality(WonBy(SharedGames({1, 2, 3}), {1, 2, 3}))
    /\ \E j \in DOMAIN teams :
          /\ TrioOf(teams[j]) = {4, 5, 6}
          /\ teams[j].games_won = 3
          /\ Cardinality(WonBy(SharedGames({4, 5, 6}), {4, 5, 6})) = 2

(***************************************************************************)
(* C23  Season listings leave out who did not play                         *)
(***************************************************************************)
\* the year a season string of the listings names
BoardYear(s) == CASE s = "2024" -> 2024 [] s = "2026" -> 2026 [] s = "2027" -> 2027

\* the stored games of the year in which the trio is the whole of one side
SharedInYear(T, yr) == {g \in SharedGames(T) : year(games[g].played_at) = yr}

\* C23: a season-scoped listing (season a year, not 'all') lists exactly the players
\* with a participation in a game of that year, and exactly the Team rows whose trio
\* played a game of that year as a side, each once; who has no game in the season is
\* left out rather than listed with zeroed statistics, whereas the all-time player
\* leaderboard lists every player, also those with zero games.
C23_SeasonListingOmitsIdle ==
    [][\A s \in BoardSeasons :
          LET yearly == ~IsNone(s) /\ Get(s) # "all"
          IN  /\ get_leaderboard(s) =>
                    LET results == Get(response'.body).results
                    IN  /\ {results[i].id : i \in DOMAIN results}
                              = IF yearly
                                THEN {p \in DOMAIN players : RowsInYear(p, BoardYear(Get(s))) # {}}
                                ELSE DOMAIN players
                        /\ \A i, j \in DOMAIN results : results[i].id = results[j].id => i = j
                        /\ \A i \in DOMAIN results : yearly => results[i].games_played > 0
              /\ (yearly /\ list_teams(s)) =>
                    LET listed == Get(response'.body).teams
                    IN  /\ {TrioOf(listed[i]) : i \in DOMAIN listed}
                              = {TrioOf(teams[i]) :
                                    i \in {j \in DOMAIN teams :
                                              SharedInYear(TrioOf(teams[j]), BoardYear(Get(s))) # {}}}
                        /\ \A i \in DOMAIN listed :
                              listed[i].games_played
                                 = Cardinality(SharedInYear(TrioOf(listed[i]), BoardYear(Get(s))))]_vars

\* the leaderboard of 2027 was served with the six players of the fourth game; player 6,
\* whose cached record holds three games, and player 8, who never played, are left out,
\* and the trio 4,5,6 has a Team row without a game in 2027
C23_Witness ==
    /\ ~IsNone(response.body)
    /\ "results" \in DOMAIN Get(response.body)
    /\ {Get(response.body).results[i].id : i \in DOMAIN Get(response.body).results}
          = {1, 2, 3, 4, 5, 7}
    /\ players[6].games_played = 3 /\ players[8].games_played = 0
    /\ \E i \in DOMAIN teams : TrioOf(teams[i]) = {4, 5, 6}

(***************************************************************************)
(* C24  The rivalry aggregate and its recent games                         *)
(***************************************************************************)
\* the stored games that qualify
Qualifying == {g \in DOMAIN games : OrchardAgainstThreeOfDreher(g)}

\* C24: get_rivalry_games tallies wins and points over all qualifying games
\* (orchard_wins + dreher_wins = total_games, point_differential = total_orchard_points -
\* total_dreher_points), while recent_games holds min(5, total_games) entries: the
\* qualifying games with the latest played_at, most recent first.
C24_TalliesAllRecentFive ==
    LET r == get_rivalry_games(players, games, game_participations)
        recent == r.recent_games
        shown == {recent[i].id : i \in DOMAIN recent}
    IN  /\ r.total_games = Cardinality(Qualifying)
        /\ r.orchard_wins + r.dreher_wins = r.total_games
        /\ r.total_orchard_points + r.total_dreher_points
              = SumOfPairs({<<g, games[g].team1_score + games[g].team2_score>> : g \in Qualifying})
        /\ r.point_differential = r.total_orchard_points - r.total_dreher_points
        /\ Len(recent) = IF r.total_games < 5 THEN r.total_games ELSE 5
        /\ shown \subseteq Qualifying
        /\ \A i, j \in DOMAIN recent : i < j => recent[i].played_at > recent[j].played_at
        /\ \A i \in DOMAIN recent : recent[i].played_at = games[recent[i].id].played_at
        /\ \A g \in Qualifying \ shown :
              \A i \in DOMAIN recent : games[g].played_at < recent[i].played_at

\* the aggregate was served over six qualifying games, won by both sides, and shows
\* five of them
C24_Witness ==
    /\ ~IsNone(response.body)
    /\ response.body = Some(get_rivalry_games(players, games, game_participations))
    /\ Get(response.body).total_games = 6
    /\ Get(response.body).orchard_wins > 0 /\ Get(response.body).dreher_wins > 0
    /\ Len(Get(response.body).recent_games) = 5

(***************************************************************************)
(* C25  Equal scores                                                       *)
(***************************************************************************)
\* the participation rows of player p, as positions <<game, index>>
RowsOfPlayer(p) ==
    {x \in Positions(game_participations) : game_participations[x[1]][x[2]].player_id = p}

\* the row's own score minus the other side's, read off the scores
MarginOf(x) ==
    IF game_participations[x[1]][x[2]].team_number = 1
    THEN games[x[1]].team1_score - games[x[1]].team2_score
    ELSE games[x[1]].team2_score - games[x[1]].team1_score

\* the rows that count as wins when a game with equal scores goes to side 2
WinsWithTiesToSide2(p) ==
    {x \in RowsOfPlayer(p) :
        MarginOf(x) > 0 \/ (MarginOf(x) = 0 /\ game_participations[x[1]][x[2]].team_number = 2)}

\* C25: a game recorded with equal scores is stored with side 2 as winner; in each
\* participant's cached record it counts as a win with a margin sample of 0 for side 2
\* and as a loss with a margin sample of 0 for side 1.
C25_TieGoesToSide2 ==
    /\ \A g \in DOMAIN games :
          games[g].team1_score = games[g].team2_score => games[g].winner_team = 2
    /\ \A p \in DOMAIN players :
          LET wins == WinsWithTiesToSide2(p)
              losses == RowsOfPlayer(p) \ wins
          IN  /\ players[p].games_won = Cardinality(wins)
              /\ players[p].avg_win_margin
                    = IF wins = {} THEN Zero
                      ELSE Ratio(SumOfPairs({<<x, MarginOf(x)>> : x \in wins}), Cardinality(wins))
              /\ players[p].avg_loss_margin
                    = IF losses = {} THEN Zero
                      ELSE Ratio(SumOfPairs({<<x, 0 - MarginOf(x)>> : x \in losses}),
                                 Cardinality(losses))

\* a game stands at 15-15 after an update of its side-1 score next to a game won 21-15
\* by side 1: a side-2 player of both has one win of two games with an average win
\* margin of 0, a side-1 player of both has one loss with an average loss margin of 0
C25_Witness ==
    \E g, h \in DOMAIN games :
       /\ games[g].team1_score = 15 /\ games[g].team2_score = 15
       /\ games[h].team1_score = 21 /\ games[h].team2_score = 15
       /\ \E q \in SidePlayers(game_participations, g, 2) \cap SidePlayers(game_participations, h, 2) :
             /\ players[q].games_played = 2 /\ players[q].games_won = 1
             /\ players[q].avg_win_margin = Zero
       /\ \E p \in SidePlayers(game_participations, g, 1) \cap SidePlayers(game_participations, h, 1) :
             /\ players[p].games_played = 2 /\ players[p].games_won = 1
             /\ players[p].avg_loss_margin = Zero

(***************************************************************************)
(* C26  The par and yardage of a round's holes                             *)
(***************************************************************************)
\* the par and yardage stored for each hole number of round r
ParAndYardage(r) ==
    {<<row.hole_number, row.par, row.yardage>> : row \in Range(RowsOf(golf_hole_results, r))}

\* C26: the par and yardage recorded for a hole of a round are a snapshot taken when
\* the round is created: no later operation, including update_golf_round with a new
\* hole set or a different tee, changes the par or yardage stored for a hole number of
\* an existing round.
C26_SnapshotNeverChanges ==
    [][\A r \in DOMAIN golf_rounds :
          r \in DOMAIN golf_rounds' => ParAndYardage(r)' = ParAndYardage(r)]_vars

(***************************************************************************)
(* Specification of interrupted game writes                                *)
(***************************************************************************)
\* games created, completed or not
MaxInterruptGames == 2

\* rosters and scores played: Orchard's three against two Dreher trios
InterruptGamesPlayed == {[team1_players |-> <<1, 2, 3>>, team2_players |-> <<4, 5, 6>>,
                          team1_score |-> 21, team2_score |-> 15],
                         [team1_players |-> <<1, 2, 3>>, team2_players |-> <<4, 5, 7>>,
                          team1_score |-> 21, team2_score |-> 18]}

\* update bodies, sent for game 1: a new score for side 1, and new rosters for both sides
InterruptUpdates == {GameUpdate(Some(10), None, None, None),
                     GameUpdate(None, None, Some(<<1, 2, 8>>), Some(<<4, 5, 6>>))}

\* the writes that run to their end; one request is served at a time
InterruptCreate ==
    \E g \in InterruptGamesPlayed :
        /\ in_flight = <<>>
        /\ nextGameId <= MaxInterruptGames
        /\ create_game(g.team1_players, g.team2_players, g.team1_score, g.team2_score)

InterruptUpdate ==
    in_flight = <<>> /\ UpdateGameWith(1, InterruptUpdates)

InterruptDelete == in_flight = <<>> /\ delete_game(1)

\* the writes that get as far as the commit of their rows
InterruptCreateRows ==
    \E g \in InterruptGamesPlayed :
        /\ in_flight = <<>>
        /\ nextGameId <= MaxInterruptGames
        /\ create_game_rows(g.team1_players, g.team2_players, g.team1_score, g.team2_score)

InterruptUpdateRows ==
    \E u \in InterruptUpdates :
        /\ in_flight = <<>>
        /\ update_game_rows(1, u.team1_score, u.team2_score, u.team1_players, u.team2_players)

InterruptDeleteRows == in_flight = <<>> /\ delete_game_rows(1)

InterruptRead == \E i \in DOMAIN in_flight : stats_read(i)

InterruptStop == \E i \in DOMAIN in_flight : interrupted(i)

NextInterrupt ==
    \/ InterruptCreate \/ InterruptUpdate \/ InterruptDelete
    \/ InterruptCreateRows \/ InterruptUpdateRows \/ InterruptDeleteRows
    \/ InterruptRead \/ InterruptStop

SpecInterrupt == Init /\ [][NextInterrupt]_vars

(***************************************************************************)
(* C27  An interrupted write leaves stale aggregates; a completed one      *)
(*      restores them                                                      *)
(***************************************************************************)
\* the players with a row in game g
PlayersOfGame(parts, g) == {parts[x[1]][x[2]].player_id : x \in {y \in Positions(parts) : y[1] = g}}

\* the cached Die columns of player p are not the recompute over the rows now stored
StaleDie(p) == CachedDie(players[p]) # FullDie(p)

\* a create, update or delete of game g that runs to its end
CompletedWrite(g) ==
    /\ in_flight = <<>>
    /\ \/ g = nextGameId
          /\ \E c \in InterruptGamesPlayed :
                create_game(c.team1_players, c.team2_players, c.team1_score, c.team2_score)
       \/ UpdateGameWith(g, InterruptUpdates)
       \/ delete_game(g)
    /\ response'.status = 200

\* C27: a game write that ends after its rows are committed and before its aggregates
\* are committed leaves every cached player row as it was before the write, so the
\* players of the game keep aggregates that do not count the rows written; and every
\* completed create, update or delete of a game leaves the cached Die columns of every
\* player of that game, before or after the write, equal to the full recompute over
\* the rows then stored.
C27_CompletedWriteRestores ==
    [][/\ Len(in_flight') < Len(in_flight) => players' = players
       /\ \A g \in 1..MaxInterruptGames + 1 :
             CompletedWrite(g)
                => \A p \in (PlayersOfGame(game_participations, g)
                               \cup PlayersOfGame(game_participations', g)) \cap DOMAIN players :
                      CachedDie(players'[p]) = FullDie(p)']_vars

\* reached: the create of the game of 1 2 3 against 4 5 6 was interrupted, a later
\* create of 1 2 3 against 4 5 7 completed; player 1 counts both games, player 6,
\* who was not in the later game, still counts none
C27_Witness ==
    /\ in_flight = <<>>
    /\ DOMAIN games = {1, 2}
    /\ 6 \in PlayersOfGame(game_participations, 1)
    /\ 1 \in PlayersOfGame(game_participations, 1) \cap PlayersOfGame(game_participations, 2)
    /\ StaleDie(6) /\ players[6].games_played = 0
    /\ ~StaleDie(1) /\ players[1].games_played = 2

(***************************************************************************)
(* Specification of overlapping game writes                                *)
(***************************************************************************)
\* games created
MaxConcurrentGames == 2

\* requests that may be between their row commit and their aggregate commit at once
MaxInFlight == 2

\* rosters and scores played: the two games share players 1 2 3 4 5
ConcurrentGamesPlayed == {[team1_players |-> <<1, 2, 3>>, team2_players |-> <<4, 5, 6>>,
                           team1_score |-> 21, team2_score |-> 15],
                          [team1_players |-> <<1, 2, 3>>, team2_players |-> <<4, 5, 7>>,
                           team1_score |-> 21, team2_score |-> 18]}

ConcurrentCreateRows ==
    \E g \in ConcurrentGamesPlayed :
        /\ Len(in_flight) < MaxInFlight
        /\ nextGameId <= MaxConcurrentGames
        /\ create_game_rows(g.team1_players, g.team2_players, g.team1_score, g.team2_score)

\* game 1 is deleted while it is the only one stored
ConcurrentDeleteRows ==
    /\ Len(in_flight) < MaxInFlight
    /\ DOMAIN games = {1}
    /\ delete_game_rows(1)

ConcurrentRead == \E i \in DOMAIN in_flight : stats_read(i)

ConcurrentCommit == \E i \in DOMAIN in_flight : stats_commit(i)

NextConcurrent ==
    ConcurrentCreateRows \/ ConcurrentDeleteRows \/ ConcurrentRead \/ ConcurrentCommit

SpecConcurrent == Init /\ [][NextConcurrent]_vars

(***************************************************************************)
(* C28  Overlapping writes that share a player can leave stale aggregates  *)
(***************************************************************************)
\* C28: with each write's row commit, aggregate read and aggregate commit as separate
\* steps, an aggregate commit leaves a player of the request equal to the full
\* recompute whenever the player's stored row and rows are still those the request
\* read; nothing more is guaranteed, and the interleaving of C28_Witness, in which
\* another write's row commit falls between the read and the commit, ends with both
\* writes completed and a shared player's cached aggregates different from the full
\* recompute over the final rows.
C28_CommitWritesWhatWasRead ==
    [][\A i \in DOMAIN in_flight :
          stats_commit(i)
             => \A p \in DOMAIN Get(in_flight[i].read) :
                   (/\ Get(in_flight[i].read)[p].loaded = players[p]
                    /\ CachedDie(Get(in_flight[i].read)[p].computed) = FullDie(p))
                      => CachedDie(players'[p]) = FullDie(p)']_vars

\* reached: two creates that share player 1 have both completed, no request is in
\* flight, and player 1, who has a row in both stored games, counts one game
C28_Witness ==
    /\ in_flight = <<>>
    /\ response.status = 200
    /\ DOMAIN games = {1, 2}
    /\ 1 \in PlayersOfGame(game_participations, 1) \cap PlayersOfGame(game_participations, 2)
    /\ StaleDie(1)
    /\ players[1].games_played = 1

(***************************************************************************)
(* C29  One Team row per trio, player ids ascending                        *)
(***************************************************************************)
\* C29: after any sequence of rebuild_all_teams and update_teams_for_game calls, run one
\* at a time between the game writes, no two Team rows hold the same three players and
\* every Team row has player1_id < player2_id < player3_id.
C29_OneAscendingRowPerTrio ==
    /\ \A i, j \in DOMAIN teams : TrioOf(teams[i]) = TrioOf(teams[j]) => i = j
    /\ \A i \in DOMAIN teams :
          teams[i].player1_id < teams[i].player2_id /\ teams[i].player2_id < teams[i].player3_id

\* reached: two Team rows, one of them for the trio recorded as 3, 1, 2 in its first
\* game, whose row counts four games, so it was written again after it was created
C29_Witness ==
    /\ Len(teams) = 2
    /\ \E g \in DOMAIN games : \E i \in DOMAIN game_participations[g] :
          /\ game_participations[g][i].player_id = 3
          /\ \E j \in DOMAIN game_participations[g] :
                j > i /\ game_participations[g][j].player_id = 1
    /\ \E i \in DOMAIN teams : TrioOf(teams[i]) = {1, 2, 3} /\ teams[i].games_played = 4

(***************************************************************************)
(* C30  The cached Die totals are conserved across the league              *)
(***************************************************************************)
\* the sum of a column over all player rows
RECURSIVE SumOver(_, _)
SumOver(S, col) ==
    IF S = {} THEN 0
    ELSE LET p == CHOOSE q \in S : TRUE
         IN  players[p][col] + SumOver(S \ {p}, col)

\* C30: in every state reached by completed game writes, the sum of total_points_scored
\* over all players equals the sum of total_points_against over all players, and the
\* sum of games_won over all players is three times the number of stored games.
C30_TotalsConserved ==
    /\ SumOver(DOMAIN players, "total_points_scored") = SumOver(DOMAIN players, "total_points_against")
    /\ SumOver(DOMAIN players, "games_won") = 3 * Cardinality(DOMAIN games)

====
